---- MODULE Spec2Model ----
(***************************************************************************)
(* The agent's task-execution engine of file-agent: the task manager's     *)
(* reconcile (crates/agent/src/manager.rs), the Task state machine and its *)
(* execution context (task.rs), the triggers (trigger.rs) and the cron     *)
(* scheduler (cron.rs).                                                    *)
(*                                                                         *)
(* Every await of the source at which another future can run is a step     *)
(* boundary: a manager operation (reload, export_log) holds the manager    *)
(* lock for its whole duration and is a little program whose position is   *)
(* mgr.pc; spawned firings wait for the context mutex, run the body and    *)
(* append their Run event; the tick driver fires due jobs under the        *)
(* scheduler mutex; the wall clock advances on its own.                    *)
(*                                                                         *)
(* Spec feeds reload every input over one task id; SpecPair feeds it a     *)
(* family of inputs over two task ids.  A behaviour holds at most          *)
(* MaxStimuli outside events (clock seconds, reload calls, export calls).  *)
(* The context mutex is granted to any waiter (tokio grants it in FIFO     *)
(* order, which is one of the orders explored).                            *)
(***************************************************************************)
EXTENDS Integers, Sequences, FiniteSets, TLC

(* ------------------------------ bounds -------------------------------- *)

\* the events from outside the engine in one behaviour: seconds of the wall
\* clock elapsed, reload calls and export_log calls
MaxStimuli == 3

\* the tick driver tasks alive at once
MaxDrivers == 2

\* the jobs a caller gives to the scheduler directly
MaxJobs == 2

\* the writes to the byte stream the codec reads from; the request frames
\* an agent writes to its controller connection
MaxFrames == 2

\* the tasks the web API gives an agent of the controller's database
MaxTasks == 1

\* the lines of the hosts file before the Hosts body first runs
MaxLines == 2

\* the runs of the Hosts body
MaxRuns == 2

(* ------------------------------ data ---------------------------------- *)

\* EventType (message.rs): Deactivate exists in the enum
EventTypes == {"TriggerInstall", "Deactivate", "Run"}

\* the result an install/uninstall event carries on success:
\* Ok(TaskResult { status: Some(0), message: "" })
Ok0 == "Ok(status 0)"

\* TaskSpecError::InvalidCronExpresion.into()
InvalidCronExpresion == "Err(TaskSpecError(InvalidCronExpresion))"

\* the task bodies of the inputs (TaskType::Command): a command that exits
\* with status 0 and a command whose spawn fails (an io::Error)
Bodies == {"cmdA", "cmdB"}

\* what the body's run() returns: Ok(status 0) or a TaskError
BodyResult(body) == IF body = "cmdA" THEN Ok0 ELSE "Err(IoError)"

\* cron_expr.parse(): Ok for a well-formed expression; of the inputs'
\* expressions "0/1 * * * * *" (every second) and "0/2 * * * * *" (every
\* other second) parse, "not a cron" does not
Parses(expr) == expr \in {"0/1 * * * * *", "0/2 * * * * *"}

\* TriggerSpec (message.rs): Cron(String) | Immediate | Startup
CronSpec(expr) == [kind |-> "Cron", expr |-> expr]

ImmediateSpec == [kind |-> "Immediate", expr |-> ""]

StartupSpec == [kind |-> "Startup", expr |-> ""]

\* TaskSpec (message.rs): name, task (the body), on_error, triggers
TaskSpec(name, task, trigs) ==
  [name |-> name, task |-> task, on_error |-> "Ignore", triggers |-> trigs]

\* Event (message.rs).  id stands for Uuid::new_v4(): an id no other event
\* has, given when the event is appended: the context's number and the
\* count of events appended to that context so far
Event(type, s, e, r) ==
  [id |-> <<>>, type_ |-> type, start |-> s, end |-> e, result |-> r]

\* Option<Uuid>::None of CronTrigger.job_id
None == 0

VARIABLES
  now,      \* SystemTime::now() / chrono::Local::now(): the wall clock
  tasks,    \* TaskManager.tasks: HashMap<Uuid, Task>
  jobs,     \* CronScheduler.jobs: Vec<ScheduledJob>
  ctxs,     \* every TaskExecContext ever created (Arc<Mutex<..>>), by number
  mgr,      \* the manager operation in progress (holder of the manager lock)
  nextJob,  \* Uuid::new_v4() for job ids: the next fresh job id
  stimuli,  \* number of outside events so far (clock seconds, calls)
  exported, \* what the last completed TaskManager::export_log returned
  hist,     \* history: inputs and outcomes of the reload calls
  crond,    \* TaskManager.crond: Option<JoinHandle> of the tick driver
  drivers,  \* the tick driver tasks alive on the runtime
  fires,    \* history: the (job, instant) pairs the scheduler has fired
  buf,      \* a BytesMut the codec writes to and reads from
  sent,     \* history: what was put in buf and is not yet consumed
  out,      \* history: the outcome of the last decode call
  agent,    \* the Agent process: its loops and what it handed to reload
  files,    \* the file system the agent works in: path -> content
  ctl,      \* the controller: its agent database and one agent connection
  hosts,    \* the hosts file of the agent's machine and the runs on it
  sched,    \* the scheduler mutex: its holder and what the holder is at
  ticking,  \* the tick drivers inside crond.lock().await.tick().await
  rx        \* the receive loop of one connection, over buf

\* the state outside the task engine
others ==
  <<crond, drivers, fires, buf, sent, out, agent, files, ctl, hosts, sched,
    ticking, rx>>

vars == <<now, tasks, jobs, ctxs, mgr, nextJob, stimuli, exported, hist,
          crond, drivers, fires, buf, sent, out, agent, files, ctl, hosts,
          sched, ticking, rx>>


(* --------------------- task execution context ------------------------- *)

\* Task::new: Arc::new(Mutex::new(TaskExecContext { task, run_history })).
\* spawned: firings spawned (tokio::spawn) that still wait for the mutex;
\* in_run: the start stamps of the firings that are inside run(); pushed:
\* the events appended so far (the source of the event ids).
NewContext(body) ==
  [task |-> body, run_history |-> <<>>, spawned |-> 0, in_run |-> <<>>,
   pushed |-> 0]

\* a context whose last Arc reference is gone
Dropped ==
  [task |-> "", run_history |-> <<>>, spawned |-> 0, in_run |-> <<>>,
   pushed |-> 0]

\* the Arc references to context c: the Task that owns it (in the map ts or
\* held by the manager operation m), the closures of the jobs js, and the
\* spawned futures
Referenced(cs, c, ts, m, js) ==
  \/ \E id \in DOMAIN ts : ts[id].context = c
  \/ m.local /\ m.task.context = c
  \/ \E k \in DOMAIN js : js[k].ctx = c
  \/ cs[c].spawned > 0
  \/ cs[c].in_run # <<>>

\* the contexts once every unreferenced one is dropped
Collect(cs, ts, m, js) ==
  [c \in DOMAIN cs |->
     IF Referenced(cs, c, ts, m, js) THEN cs[c] ELSE Dropped]

\* the context mutex is free when no firing holds it (a manager step takes
\* and releases it within one step)
ContextFree(c) == ctxs[c].in_run = <<>>

\* run_history.push_back(event), the event carrying a fresh id
PushBack(c, ev) ==
  [ctxs EXCEPT
     ![c].run_history = Append(@, [ev EXCEPT !.id = <<c, ctxs[c].pushed + 1>>]),
     ![c].pushed = @ + 1]

\* a spawn that starts every firing twice
Spawn_twice(cs, c, n) == [cs EXCEPT ![c].spawned = @ + n + n]

\* tokio::spawn(async move { ctx.lock().await.run().await }): n more
\* firings wait for context c
Spawn(cs, c, n) == [cs EXCEPT ![c].spawned = @ + n]

\* a firing that takes the mutex without waiting for it to be free
run_begin_unlocked(c) ==
  /\ UNCHANGED others
  /\ ctxs[c].spawned > 0
  /\ ctxs' = [ctxs EXCEPT ![c].spawned = @ - 1, ![c].in_run = Append(@, now)]
  /\ UNCHANGED <<now, tasks, jobs, mgr, nextJob, stimuli, exported, hist>>

\* ctx.lock().await, then TaskExecContext::run up to the body:
\* let start = SystemTime::now(); self.task.run()
run_begin(c) ==
  /\ UNCHANGED others
  /\ ctxs[c].spawned > 0
  /\ ContextFree(c)
  /\ ctxs' = [ctxs EXCEPT ![c].spawned = @ - 1, ![c].in_run = Append(@, now)]
  /\ UNCHANGED <<now, tasks, jobs, mgr, nextJob, stimuli, exported, hist>>

\* a run that queues another firing when the body fails
run_end_retries(c) ==
  /\ UNCHANGED others
  /\ ctxs[c].in_run # <<>>
  /\ ctxs' = Collect([PushBack(c, Event("Run", Head(ctxs[c].in_run), now,
                                        BodyResult(ctxs[c].task)))
                         EXCEPT ![c].in_run = Tail(@),
                                ![c].spawned =
                                  IF BodyResult(ctxs[c].task) = Ok0 THEN @
                                  ELSE @ + 1], tasks, mgr, jobs)
  /\ UNCHANGED <<now, tasks, jobs, mgr, nextJob, stimuli, exported, hist>>

\* a body that ends with a call of the manager, whose lock it waits for
run_end_asks_manager(c) ==
  /\ UNCHANGED others
  /\ ctxs[c].in_run # <<>>
  /\ mgr.pc = "idle"
  /\ ctxs' = Collect([PushBack(c, Event("Run", Head(ctxs[c].in_run), now,
                                        BodyResult(ctxs[c].task)))
                         EXCEPT ![c].in_run = Tail(@)], tasks, mgr, jobs)
  /\ UNCHANGED <<now, tasks, jobs, mgr, nextJob, stimuli, exported, hist>>

\* the body returns: let end = SystemTime::now(); push_back(Event { Run,
\* start, end, result }); the mutex guard is dropped
run_end(c) ==
  /\ UNCHANGED others
  /\ ctxs[c].in_run # <<>>
  /\ ctxs' = Collect([PushBack(c, Event("Run", Head(ctxs[c].in_run), now,
                                        BodyResult(ctxs[c].task)))
                         EXCEPT ![c].in_run = Tail(@)], tasks, mgr, jobs)
  /\ UNCHANGED <<now, tasks, jobs, mgr, nextJob, stimuli, exported, hist>>

\* pop_front of the oldest first
RECURSIVE DrainFront(_, _)
DrainFront(history, res) ==
  IF history = <<>> THEN res
  ELSE DrainFront(Tail(history), Append(res, Head(history)))

\* an export that pops from the back: the newest event first
export_log_back(history) ==
  [k \in 1..Len(history) |-> history[Len(history) + 1 - k]]

\* TaskExecContext::export_log: while let Some(run) = pop_front() { push }
export_log(history) == DrainFront(history, <<>>)

(* --------------------------- cron scheduler --------------------------- *)

\* the instants of a parsed schedule: "0/1 * * * * *" is every second,
\* "0/2 * * * * *" the seconds 0, 2, 4, ... of the minute (the clock starts
\* at second 0 of a minute)
Matches(expr, t) ==
  \/ expr = "0/1 * * * * *"
  \/ expr = "0/2 * * * * *" /\ t % 2 = 0

\* ScheduledJob::from: job_id fresh, last_run = Local::now(); the closure
\* captures the context it fires
ScheduledJob(id, expr, c) ==
  [job_id |-> id, schedule |-> expr, ctx |-> c, last_run |-> now]

\* a tick that fires the first due instant only (an if for the for)
ScheduledJob_tick_once(job, fired) ==
  LET after == {t \in (job.last_run + 1)..now : Matches(job.schedule, t)}
  IN  IF after = {} THEN [job |-> job, fired |-> fired]
      ELSE LET time == CHOOSE t \in after : \A u \in after : t <= u
           IN  [job |-> [job EXCEPT !.last_run = time],
                fired |-> Append(fired, time)]

\* ScheduledJob::tick: for time in schedule.after(last_run) { if time > now
\* { break }; spawn; last_run = time }.  The result is the job with its
\* last_run advanced and the instants fired (one spawn each), in the order
\* of the spawns.
RECURSIVE ScheduledJob_tick(_, _)
ScheduledJob_tick(job, fired) ==
  LET after == {t \in (job.last_run + 1)..now : Matches(job.schedule, t)}
  IN  IF after = {} THEN [job |-> job, fired |-> fired]
      ELSE LET time == CHOOSE t \in after : \A u \in after : t <= u
           IN  ScheduledJob_tick([job EXCEPT !.last_run = time],
                                 Append(fired, time))

\* the firings a tick spawns for context c, over all jobs
RECURSIVE FiredFor(_, _)
FiredFor(js, c) ==
  IF js = <<>> THEN 0
  ELSE (IF Head(js).ctx = c
        THEN Len(ScheduledJob_tick(Head(js), <<>>).fired) ELSE 0)
       + FiredFor(Tail(js), c)

\* the tick driver's body: crond.lock().await.tick().await, i.e.
\* CronScheduler::tick: for job in &mut self.jobs { job.tick() }
CronScheduler_tick ==
  /\ UNCHANGED others
  /\ jobs' = [k \in DOMAIN jobs |-> ScheduledJob_tick(jobs[k], <<>>).job]
  /\ ctxs' = [c \in DOMAIN ctxs |->
                [ctxs[c] EXCEPT !.spawned = @ + FiredFor(jobs, c)]]
  /\ UNCHANGED <<now, tasks, mgr, nextJob, stimuli, exported, hist>>

\* CronScheduler::add: self.jobs.push(job)
CronScheduler_add(js, job) == Append(js, job)

\* CronScheduler::remove: self.jobs.retain(|j| j.job_id != uuid)
CronScheduler_remove(js, uuid) == SelectSeq(js, LAMBDA j : j.job_id # uuid)

\* the wall clock advances
Advance ==
  /\ UNCHANGED others
  /\ stimuli < MaxStimuli
  /\ stimuli' = stimuli + 1
  /\ now' = now + 1
  /\ UNCHANGED <<tasks, jobs, ctxs, mgr, nextJob, exported, hist>>

(* -------------------------------- task -------------------------------- *)

\* Task::make_trigger: a CronTrigger with job_id None, an ImmediateTrigger
\* or a StartupTrigger
make_trigger(trig) ==
  [kind |-> trig.kind, cron_expr |-> trig.expr, job_id |-> None]

\* for trig in &spec.triggers { triggers.push(make_trigger(trig)) }
make_triggers(trigs) == [k \in DOMAIN trigs |-> make_trigger(trigs[k])]

\* Task::new: the task owns context number c; state Deactivated
Task_new(spec, c) ==
  [spec |-> spec, context |-> c, triggers |-> make_triggers(spec.triggers),
   state |-> "Deactivated"]

\* placeholders of the manager operation's locals
NoSpec == TaskSpec("", "", <<>>)

NoTask == [spec |-> NoSpec, context |-> 0, triggers |-> <<>>, state |-> ""]

NoEvent == Event("", 0, 0, "")

NoSpecs == [id \in {} |-> NoSpec]

\* the number of events of a kind in a buffer
CountType(h, type) == Cardinality({k \in DOMAIN h : h[k].type_ = type})

\* history of the update or removal in progress, as it found them: the Task,
\* the ids of the scheduler's jobs and the number of TriggerInstall events
\* of the task's buffer
NoOld == [task |-> NoTask, jobs |-> {}, installs |-> 0]

\* that history for Task t
Old(t) ==
  [task |-> t, jobs |-> {jobs[k].job_id : k \in DOMAIN jobs},
   installs |-> CountType(ctxs[t.context].run_history, "TriggerInstall")]

\* no manager operation in progress: the manager lock is free
Idle ==
  [pc |-> "idle", specs |-> NoSpecs, todo |-> {}, id |-> "", local |-> FALSE,
   task |-> NoTask, spec |-> NoSpec, i |-> 0, ret |-> "", ev |-> NoEvent,
   res |-> <<>>, old |-> NoOld]

\* the Task the operation works on: one moved out of (or not yet inserted
\* into) the map, or one borrowed in place by get_mut
CurTask == IF mgr.local THEN mgr.task ELSE tasks[mgr.id]

\* the operation writes Task t and goes on as m
SetCur(t, m) ==
  /\ mgr' = IF mgr.local THEN [m EXCEPT !.task = t] ELSE m
  /\ tasks' = IF mgr.local THEN tasks ELSE [tasks EXCEPT ![mgr.id] = t]

\* Task::is_activated
is_activated(t) == t.state = "Activated"

\* activate without the early return of an Activated task
activate_always ==
  /\ UNCHANGED others
  /\ mgr.pc = "activate"
  /\ mgr' = [mgr EXCEPT !.pc = "install", !.i = 1]
  /\ UNCHANGED <<now, tasks, jobs, ctxs, nextJob, stimuli, exported, hist>>

\* ImmediateTrigger::install: tokio::spawn(async move { ctx.lock().await
\* .run().await }); Ok(())
ImmediateTrigger_install(cs, c) == Spawn(cs, c, 1)

\* a Startup trigger that fires for a context nothing was recorded for yet
StartupTrigger_install_first(cs, c) ==
  IF cs[c].pushed = 0 THEN Spawn(cs, c, 1) ELSE cs

\* StartupTrigger::install: tokio::spawn(async move { ctx.lock().await
\* .run().await }); Ok(())
StartupTrigger_install(cs, c) == Spawn(cs, c, 1)

\* Task::activate, entry: if self.is_activated() { return Ok(()) }
activate ==
  /\ UNCHANGED others
  /\ mgr.pc = "activate"
  /\ mgr' = IF is_activated(CurTask)
            THEN [mgr EXCEPT !.pc = mgr.ret]
            ELSE [mgr EXCEPT !.pc = "install", !.i = 1]
  /\ UNCHANGED <<now, tasks, jobs, ctxs, nextJob, stimuli, exported, hist>>

\* Task::activate, one turn of the loop up to the wait for the context:
\* start = now; result = trigger.install(ctx); the event is built (end =
\* now); after the last trigger, state = Activated
install ==
  /\ UNCHANGED others
  /\ mgr.pc = "install"
  /\ LET t == CurTask
         i == mgr.i
         trig == t.triggers[i]
     IN  IF i > Len(t.triggers)
         THEN /\ SetCur([t EXCEPT !.state = "Activated"],
                        [mgr EXCEPT !.pc = mgr.ret, !.i = 0])
              /\ UNCHANGED <<jobs, ctxs, nextJob>>
         ELSE CASE trig.kind = "Cron" /\ ~Parses(trig.cron_expr) ->
                   \* CronTrigger::install: the expression does not parse
                   /\ SetCur(t, [mgr EXCEPT !.pc = "push_install",
                        !.ev = Event("TriggerInstall", now, now,
                                     InvalidCronExpresion)])
                   /\ UNCHANGED <<jobs, ctxs, nextJob>>
                [] trig.kind = "Cron" /\ Parses(trig.cron_expr) ->
                   \* CronTrigger::install: job_id = Some(id); add(job)
                   /\ SetCur([t EXCEPT !.triggers[i].job_id = nextJob],
                        [mgr EXCEPT !.pc = "push_install",
                           !.ev = Event("TriggerInstall", now, now, Ok0)])
                   /\ jobs' = CronScheduler_add(jobs,
                        ScheduledJob(nextJob, trig.cron_expr, t.context))
                   /\ nextJob' = nextJob + 1
                   /\ UNCHANGED ctxs
                [] trig.kind = "Immediate" ->
                   /\ SetCur(t, [mgr EXCEPT !.pc = "push_install",
                        !.ev = Event("TriggerInstall", now, now, Ok0)])
                   /\ ctxs' = ImmediateTrigger_install(ctxs, t.context)
                   /\ UNCHANGED <<jobs, nextJob>>
                [] trig.kind = "Startup" ->
                   /\ SetCur(t, [mgr EXCEPT !.pc = "push_install",
                        !.ev = Event("TriggerInstall", now, now, Ok0)])
                   /\ ctxs' = StartupTrigger_install(ctxs, t.context)
                   /\ UNCHANGED <<jobs, nextJob>>
  /\ UNCHANGED <<now, stimuli, exported, hist>>

\* an activate that goes on to the next trigger after a failed install
push_install_goes_on ==
  /\ UNCHANGED others
  /\ mgr.pc = "push_install"
  /\ ContextFree(CurTask.context)
  /\ ctxs' = PushBack(CurTask.context, mgr.ev)
  /\ mgr' = [mgr EXCEPT !.pc = "install", !.i = @ + 1, !.ev = NoEvent]
  /\ UNCHANGED <<now, tasks, jobs, nextJob, stimuli, exported, hist>>

\* Task::activate, rest of the turn: self.context.lock().await
\* .run_history.push_back(event); if let Err(_) = result { return result }
push_install ==
  /\ UNCHANGED others
  /\ mgr.pc = "push_install"
  /\ ContextFree(CurTask.context)
  /\ ctxs' = PushBack(CurTask.context, mgr.ev)
  /\ mgr' = IF mgr.ev.result # Ok0
            THEN [mgr EXCEPT !.pc = mgr.ret, !.i = 0, !.ev = NoEvent]
            ELSE [mgr EXCEPT !.pc = "install", !.i = @ + 1, !.ev = NoEvent]
  /\ UNCHANGED <<now, tasks, jobs, nextJob, stimuli, exported, hist>>

\* deactivate without the early return of a Deactivated task
deactivate_always ==
  /\ UNCHANGED others
  /\ mgr.pc = "deactivate"
  /\ mgr' = [mgr EXCEPT !.pc = "uninstall", !.i = 1]
  /\ UNCHANGED <<now, tasks, jobs, ctxs, nextJob, stimuli, exported, hist>>

\* Task::deactivate, entry: if !self.is_activated() { return }
deactivate ==
  /\ UNCHANGED others
  /\ mgr.pc = "deactivate"
  /\ mgr' = IF ~is_activated(CurTask)
            THEN [mgr EXCEPT !.pc = mgr.ret]
            ELSE [mgr EXCEPT !.pc = "uninstall", !.i = 1]
  /\ UNCHANGED <<now, tasks, jobs, ctxs, nextJob, stimuli, exported, hist>>

\* a deactivate that tags its events Deactivate
uninstall_tagged ==
  /\ UNCHANGED others
  /\ mgr.pc = "uninstall"
  /\ LET t == CurTask
         i == mgr.i
         trig == t.triggers[i]
     IN  IF i > Len(t.triggers)
         THEN /\ SetCur([t EXCEPT !.state = "Deactivated"],
                        [mgr EXCEPT !.pc = mgr.ret, !.i = 0])
              /\ UNCHANGED jobs
         ELSE /\ SetCur([t EXCEPT !.triggers[i].job_id = None],
                   [mgr EXCEPT !.pc = "push_uninstall",
                      !.ev = Event("Deactivate", now, now, Ok0)])
              /\ jobs' = IF trig.kind = "Cron" /\ trig.job_id # None
                         THEN CronScheduler_remove(jobs, trig.job_id)
                         ELSE jobs
  /\ UNCHANGED <<now, ctxs, nextJob, stimuli, exported, hist>>

\* Task::deactivate, one turn of the loop up to the wait for the context:
\* trigger.uninstall() (CronTrigger: if let Some(uuid) = job_id.take()
\* { remove(uuid) }; Immediate and Startup: nothing); the event is built
\* with kind TriggerInstall; after the last trigger, state = Deactivated
uninstall ==
  /\ UNCHANGED others
  /\ mgr.pc = "uninstall"
  /\ LET t == CurTask
         i == mgr.i
         trig == t.triggers[i]
     IN  IF i > Len(t.triggers)
         THEN /\ SetCur([t EXCEPT !.state = "Deactivated"],
                        [mgr EXCEPT !.pc = mgr.ret, !.i = 0])
              /\ UNCHANGED jobs
         ELSE /\ SetCur([t EXCEPT !.triggers[i].job_id = None],
                   [mgr EXCEPT !.pc = "push_uninstall",
                      !.ev = Event("TriggerInstall", now, now, Ok0)])
              /\ jobs' = IF trig.kind = "Cron" /\ trig.job_id # None
                         THEN CronScheduler_remove(jobs, trig.job_id)
                         ELSE jobs
  /\ UNCHANGED <<now, ctxs, nextJob, stimuli, exported, hist>>

\* Task::deactivate, rest of the turn: lock the context, push the event
push_uninstall ==
  /\ UNCHANGED others
  /\ mgr.pc = "push_uninstall"
  /\ ContextFree(CurTask.context)
  /\ ctxs' = PushBack(CurTask.context, mgr.ev)
  /\ mgr' = [mgr EXCEPT !.pc = "uninstall", !.i = @ + 1, !.ev = NoEvent]
  /\ UNCHANGED <<now, tasks, jobs, nextJob, stimuli, exported, hist>>

\* Task::update, first test: if self.spec.task != spec.task { make_task;
\* self.deactivate().await; ... }
update_task ==
  /\ UNCHANGED others
  /\ mgr.pc = "update_task"
  /\ mgr' = IF CurTask.spec.task # mgr.spec.task
            THEN [mgr EXCEPT !.pc = "deactivate", !.ret = "update_swap"]
            ELSE [mgr EXCEPT !.pc = "update_triggers"]
  /\ UNCHANGED <<now, tasks, jobs, ctxs, nextJob, stimuli, exported, hist>>

\* Task::update: self.context.lock().await.task = task
update_swap ==
  /\ UNCHANGED others
  /\ mgr.pc = "update_swap"
  /\ ContextFree(CurTask.context)
  /\ ctxs' = [ctxs EXCEPT ![CurTask.context].task = mgr.spec.task]
  /\ mgr' = [mgr EXCEPT !.pc = "update_triggers"]
  /\ UNCHANGED <<now, tasks, jobs, nextJob, stimuli, exported, hist>>

\* Task::update, second test: if self.spec.triggers != spec.triggers
\* { new_triggers; self.deactivate().await; ... }
update_triggers ==
  /\ UNCHANGED others
  /\ mgr.pc = "update_triggers"
  /\ mgr' = IF CurTask.spec.triggers # mgr.spec.triggers
            THEN [mgr EXCEPT !.pc = "deactivate", !.ret = "update_replace"]
            ELSE [mgr EXCEPT !.pc = "update_spec"]
  /\ UNCHANGED <<now, tasks, jobs, ctxs, nextJob, stimuli, exported, hist>>

\* Task::update: self.triggers = new_triggers
update_replace ==
  /\ UNCHANGED others
  /\ mgr.pc = "update_replace"
  /\ SetCur([CurTask EXCEPT !.triggers = make_triggers(mgr.spec.triggers)],
            [mgr EXCEPT !.pc = "update_spec"])
  /\ UNCHANGED <<now, jobs, ctxs, nextJob, stimuli, exported, hist>>

\* an update that keeps the old spec
update_spec_kept ==
  /\ UNCHANGED others
  /\ mgr.pc = "update_spec"
  /\ mgr' = [mgr EXCEPT !.pc = "activate", !.ret = "upsert"]
  /\ UNCHANGED <<now, tasks, jobs, ctxs, nextJob, stimuli, exported, hist>>

\* Task::update: self.spec = spec; self.try_activate().await
update_spec ==
  /\ UNCHANGED others
  /\ mgr.pc = "update_spec"
  /\ SetCur([CurTask EXCEPT !.spec = mgr.spec],
            [mgr EXCEPT !.pc = "activate", !.ret = "upsert"])
  /\ UNCHANGED <<now, jobs, ctxs, nextJob, stimuli, exported, hist>>

(* ---------------------------- task manager ---------------------------- *)

\* the task specs of the reconcile inputs
cron == TaskSpec("cron", "cmdA", <<CronSpec("0/1 * * * * *")>>)

immediate == TaskSpec("immediate", "cmdB", <<ImmediateSpec>>)

partial ==
  TaskSpec("partial", "cmdA",
           <<CronSpec("0/1 * * * * *"), CronSpec("not a cron")>>)

bad == TaskSpec("bad", "cmdA", <<CronSpec("not a cron")>>)

startup ==
  TaskSpec("startup", "cmdA", <<StartupSpec, CronSpec("0/1 * * * * *")>>)

SpecDomain == {cron, immediate, partial, bad, startup}

\* HashMap<Uuid, TaskSpec>, the reconcile inputs over one task id: every
\* map from none or one id to a spec
SpecMaps == UNION {[K -> SpecDomain] : K \in SUBSET {"A"}}

\* the reconcile inputs over two task ids
PairMaps ==
  { [id \in {} |-> cron],
    [id \in {"A", "B"} |-> IF id = "A" THEN cron ELSE partial],
    [id \in {"A", "B"} |-> IF id = "A" THEN cron ELSE bad],
    [id \in {"A"} |-> cron],
    [id \in {"B"} |-> immediate] }

\* m without key id
Without(m, id) == [k \in DOMAIN m \ {id} |-> m[k]]

\* what a reload leaves of the task map: per id the Task instance (its
\* context), its spec and its state
TaskMapView ==
  [id \in DOMAIN tasks |->
     [context |-> tasks[id].context, spec |-> tasks[id].spec,
      state |-> tasks[id].state]]

\* history of the manager's calls: op, the last call made ("reload" or
\* "export"); specs, the input of the last reload; again, whether that
\* reload was given the input of the reload before it, and then view and
\* njobs, the task map and the scheduler's job count it started from
NoHist ==
  [op |-> "", specs |-> NoSpecs, again |-> FALSE, view |-> NoSpecs,
   njobs |-> 0]

\* TaskManager::reload, entry (the caller holds the manager lock):
\* to_remove = the ids of self.tasks that specs does not contain
reload(specs) ==
  /\ UNCHANGED others
  /\ mgr.pc = "idle"
  /\ stimuli < MaxStimuli
  /\ stimuli' = stimuli + 1
  /\ mgr' = [Idle EXCEPT !.pc = "remove", !.specs = specs,
                         !.todo = DOMAIN tasks \ DOMAIN specs]
  /\ hist' = IF hist.op # "" /\ specs = hist.specs
             THEN [op |-> "reload", specs |-> specs, again |-> TRUE,
                   view |-> TaskMapView, njobs |-> Len(jobs)]
             ELSE [NoHist EXCEPT !.op = "reload", !.specs = specs]
  /\ exported' = NoSpecs
  /\ UNCHANGED <<now, tasks, jobs, ctxs, nextJob>>

\* TaskManager::reload: for id in to_remove
\* { self.tasks.remove(&id).unwrap().deactivate().await }
reload_remove ==
  /\ UNCHANGED others
  /\ mgr.pc = "remove"
  /\ IF mgr.todo = {}
     THEN /\ mgr' = [mgr EXCEPT !.pc = "upsert"]
          /\ UNCHANGED tasks
     ELSE \E id \in mgr.todo :
            /\ tasks' = Without(tasks, id)
            /\ mgr' = [mgr EXCEPT !.todo = @ \ {id}, !.id = id,
                          !.local = TRUE, !.task = tasks[id],
                          !.pc = "deactivate", !.ret = "drop",
                          !.old = Old(tasks[id])]
  /\ UNCHANGED <<now, jobs, ctxs, nextJob, stimuli, exported, hist>>

\* the removed Task goes out of scope at the end of the statement
reload_drop ==
  /\ UNCHANGED others
  /\ mgr.pc = "drop"
  /\ mgr' = [mgr EXCEPT !.pc = "remove", !.id = "", !.local = FALSE,
                        !.task = NoTask]
  /\ ctxs' = Collect(ctxs, tasks, mgr', jobs)
  /\ UNCHANGED <<now, tasks, jobs, nextJob, stimuli, exported, hist>>

\* TaskManager::reload: for (id, task_spec) in specs { if let Some(task) =
\* self.tasks.get_mut(&id) { task.update(..) } else { self.add_task(..) } };
\* Ok(()).  add_task starts with Task::new and try_activate.
reload_upsert ==
  /\ UNCHANGED others
  /\ mgr.pc = "upsert"
  /\ IF DOMAIN mgr.specs = {}
     THEN /\ mgr' = Idle
          /\ UNCHANGED ctxs
     ELSE \E id \in DOMAIN mgr.specs :
            LET spec == mgr.specs[id]
                m == [mgr EXCEPT !.specs = Without(mgr.specs, id),
                                 !.id = id, !.spec = spec, !.old = NoOld]
            IN  IF id \in DOMAIN tasks
                THEN /\ mgr' = [m EXCEPT !.pc = "update_task",
                                  !.old = Old(tasks[id])]
                     /\ UNCHANGED ctxs
                ELSE /\ ctxs' = Append(ctxs, NewContext(spec.task))
                     /\ mgr' = [m EXCEPT !.pc = "activate",
                                  !.ret = "add_insert", !.local = TRUE,
                                  !.task = Task_new(spec, Len(ctxs) + 1)]
  /\ UNCHANGED <<now, tasks, jobs, nextJob, stimuli, exported, hist>>

\* TaskManager::add_task: self.tasks.insert(id, task)
add_insert ==
  /\ UNCHANGED others
  /\ mgr.pc = "add_insert"
  /\ tasks' = (mgr.id :> mgr.task) @@ tasks
  /\ mgr' = [mgr EXCEPT !.pc = "upsert", !.local = FALSE, !.task = NoTask]
  /\ UNCHANGED <<now, jobs, ctxs, nextJob, stimuli, exported, hist>>

\* an export that goes through no task
export_begin_skips ==
  /\ UNCHANGED others
  /\ mgr.pc = "idle"
  /\ stimuli < MaxStimuli
  /\ stimuli' = stimuli + 1
  /\ mgr' = [Idle EXCEPT !.pc = "export", !.todo = {}, !.res = NoSpecs]
  /\ exported' = NoSpecs
  /\ UNCHANGED <<now, tasks, jobs, ctxs, nextJob, hist>>

\* TaskManager::export_log, entry (the caller holds the manager lock)
export_begin ==
  /\ UNCHANGED others
  /\ mgr.pc = "idle"
  /\ stimuli < MaxStimuli
  /\ stimuli' = stimuli + 1
  /\ mgr' = [Idle EXCEPT !.pc = "export", !.todo = DOMAIN tasks,
                         !.res = NoSpecs]
  /\ exported' = NoSpecs
  /\ UNCHANGED <<now, tasks, jobs, ctxs, nextJob, hist>>

\* an export that copies the buffer and leaves it as it is
export_task_keeps ==
  /\ UNCHANGED others
  /\ mgr.pc = "export"
  /\ \E id \in mgr.todo :
       LET c == tasks[id].context
       IN  /\ ContextFree(c)
           /\ mgr' = [mgr EXCEPT !.todo = @ \ {id},
                 !.res = (id :> ctxs[c].run_history) @@ @]
  /\ UNCHANGED <<now, tasks, jobs, ctxs, nextJob, stimuli, exported, hist>>

\* TaskManager::export_log: for (id, t) in self.tasks.iter_mut()
\* { res.insert(id, t.export_log().await) }; Task::export_log locks the
\* context and drains it
export_task ==
  /\ UNCHANGED others
  /\ mgr.pc = "export"
  /\ \E id \in mgr.todo :
       LET c == tasks[id].context
       IN  /\ ContextFree(c)
           /\ mgr' = [mgr EXCEPT !.todo = @ \ {id},
                 !.res = (id :> export_log(ctxs[c].run_history)) @@ @]
           /\ ctxs' = [ctxs EXCEPT ![c].run_history = <<>>]
  /\ UNCHANGED <<now, tasks, jobs, nextJob, stimuli, exported, hist>>

\* TaskManager::export_log returns res
export_return ==
  /\ UNCHANGED others
  /\ mgr.pc = "export"
  /\ mgr.todo = {}
  /\ exported' = mgr.res
  /\ mgr' = Idle
  /\ hist' = [hist EXCEPT !.op = "export"]
  /\ UNCHANGED <<now, tasks, jobs, ctxs, nextJob, stimuli>>

(* ---------------------------- specification --------------------------- *)

\* no payload
NoPayload == [variant |-> "", data |-> <<>>]

\* no item of the byte stream
NoItem ==
  [kind |-> "", payload |-> NoPayload, key |-> <<>>, nonce |-> <<>>,
   have |-> 0]

\* no decode call made yet.  A call records its result, the message, the
\* number of bytes it consumed, its key, the nonce it read, and the item
\* that was at the front of the buffer
NoOut ==
  [res |-> "", msg |-> NoPayload, consumed |-> 0, key |-> <<>>,
   nonce |-> <<>>, of |-> NoItem]

\* the Agent process before Agent::start: no loop spawned (pull and report
\* are the positions of the two loops), nothing handed to reload; do_pull
\* and do_report are config.pull and config.report; created is the instant
\* the loops created their interval tickers, pull_ticks and report_ticks the
\* tick waits each loop has completed; msg is the spec set a pull received.
\* History: pull_err and report_err, how the loop's current turn failed
\* ("Err" returned and logged, or "panic"); waited, connected and drained,
\* whether in the report loop's current turn a tick wait completed, the
\* connection was opened and export_log returned; pull_files and
\* pull_called, the files as the pull loop's current turn found them and
\* whether the turn has called reload; pulled, whether a pull of
\* this process has received a spec set and saved it; last_pulled, the spec
\* set the last such pull of any run received.  log is the log of the
\* ReportStatus request a report is building.  History of the reports: wire,
\* the ids of the events written to the controller in a ReportStatus; twice,
\* those written in more than one; unsent, the ids of the events of requests
\* that were dropped unwritten
NoAgent ==
  [task_file |-> "", do_pull |-> FALSE, do_report |-> FALSE,
   main |-> "", created |-> 0,
   pull |-> "", pull_err |-> "", pull_ticks |-> 0, msg |-> <<>>,
   pull_files |-> <<>>, pull_called |-> FALSE,
   report |-> "", report_err |-> "", report_ticks |-> 0, waited |-> FALSE,
   connected |-> FALSE, drained |-> FALSE,
   reloaded |-> <<>>, pulled |-> FALSE, last_pulled |-> <<>>,
   log |-> NoSpecs, wire |-> {}, twice |-> {}, unsent |-> {}]

\* no connection.  Of a receive loop: side, whose it is ("controller",
\* handle_agent; "pull" and "report", the agent's); pc, its position; key,
\* the receiver's aes_key; handled, the frames it has answered (controller)
\* or accepted (agent); result, what it returned.  History: partial, whether
\* a decode of this connection returned NotEnoughData; failed, the sides
\* whose loop has returned on InvalidData
NoRx ==
  [side |-> "", pc |-> "", key |-> <<>>, handled |-> 0, result |-> "",
   partial |-> FALSE, failed |-> {}]

\* an empty file system
NoFiles == [path \in {} |-> <<>>]

\* no request
NoRequest == [variant |-> "", id |-> "", log |-> NoSpecs]

\* the controller after Server::new, with AgentDb::new having loaded a
\* database of one agent, a1, that has no task, and one agent connection
\* accepted (handle_agent at its read).  agents is AgentDb.agent (the tasks
\* of each agent), logs the events persist_log has appended per agent; of
\* the connection: net, the request frames on their way; part, whether buf
\* ends with a strict prefix of the first of them; whole, the complete frames
\* in buf; pc, req and resp, the position of handle_agent, the request it
\* decoded and the response it built.  History: decoded, the number of
\* requests decoded; written, the responses written, each with the number of
\* the request it answers
NoCtl ==
  [agents |-> [a \in {"a1"} |-> NoSpecs], logs |-> <<>>,
   net |-> <<>>, part |-> FALSE, whole |-> <<>>,
   pc |-> "read", req |-> NoRequest, resp |-> NoPayload,
   decoded |-> 0, written |-> <<>>]

\* the hosts file before it is looked at; History: runs, the runs of the
\* Hosts task body on it; spec, the HostSpec of the last run; before, the
\* content the last run found; again, whether the last run had the HostSpec
\* of the run before it
NoHosts ==
  [content |-> <<>>, runs |-> 0, spec |-> <<>>, before |-> <<>>,
   again |-> FALSE]

\* the state outside the task engine while the engine alone is explored:
\* crond None, no driver task (CronScheduler_tick stands for the driver that
\* Agent::start starts), an empty buffer, no agent loop
\* Mutex<CronScheduler> with no holder.  who: the holder ("tick", "add" or
\* "remove"); k: the job the holder's tick is at; uuid: the job the holder
\* removes; at: history, the job list as the holder found it; busy: history,
\* whether a job body was running when the holder got the mutex
Unlocked == [who |-> "", k |-> 0, uuid |-> 0, at |-> <<>>, busy |-> FALSE]

OthersInit ==
  /\ crond = None
  /\ drivers = {}
  /\ fires = <<>>
  /\ buf = <<>>
  /\ sent = <<>>
  /\ out = NoOut
  /\ agent = NoAgent
  /\ files = NoFiles
  /\ ctl = NoCtl
  /\ hosts = NoHosts
  /\ sched = Unlocked
  /\ ticking = <<>>
  /\ rx = NoRx

\* TaskManager::new: no tasks, an empty scheduler, no tick handle
Init ==
  /\ OthersInit
  /\ now = 0
  /\ tasks = [id \in {} |-> NoTask]
  /\ jobs = <<>>
  /\ ctxs = <<>>
  /\ mgr = Idle
  /\ nextJob = 1
  /\ stimuli = 0
  /\ exported = NoSpecs
  /\ hist = NoHist

\* the steps of the engine, whatever the reconcile inputs
Engine ==
  \/ Advance
  \/ CronScheduler_tick
  \/ \E c \in DOMAIN ctxs : run_begin(c)
  \/ \E c \in DOMAIN ctxs : run_end(c)
  \/ reload_remove
  \/ reload_drop
  \/ reload_upsert
  \/ add_insert
  \/ update_task
  \/ update_swap
  \/ update_triggers
  \/ update_replace
  \/ update_spec
  \/ activate
  \/ install
  \/ push_install
  \/ deactivate
  \/ uninstall
  \/ push_uninstall
  \/ export_begin
  \/ export_task
  \/ export_return

\* one task id, every spec
Next == Engine \/ \E specs \in SpecMaps : reload(specs)

Spec == Init /\ [][Next]_vars

\* two task ids
NextPair == Engine \/ \E specs \in PairMaps : reload(specs)

SpecPair == Init /\ [][NextPair]_vars

\* the reconcile inputs that hold task A and may hold task B, whose second
\* trigger does not parse
ExportMaps ==
  { [id \in {"A", "B"} |-> IF id = "A" THEN cron ELSE partial],
    [id \in {"A"} |-> cron] }

\* the engine under those inputs: the steps that can happen
NextExport ==
  \/ Advance
  \/ CronScheduler_tick
  \/ \E c \in DOMAIN ctxs : run_begin(c)
  \/ \E c \in DOMAIN ctxs : run_end(c)
  \/ \E specs \in ExportMaps : reload(specs)
  \/ reload_remove
  \/ reload_drop
  \/ reload_upsert
  \/ add_insert
  \/ update_task
  \/ update_triggers
  \/ update_spec
  \/ activate
  \/ install
  \/ push_install
  \/ deactivate
  \/ export_begin
  \/ export_task
  \/ export_return

SpecExport == Init /\ [][NextExport]_vars

\* the reconcile inputs that hold at most the task with an Immediate trigger
ImmediateMaps == {NoSpecs, [id \in {"A"} |-> immediate]}

\* the engine under those inputs, with no export call and no cron job: the
\* steps that can happen
NextImmediate ==
  \/ Advance
  \/ \E c \in DOMAIN ctxs : run_begin(c)
  \/ \E c \in DOMAIN ctxs : run_end(c)
  \/ \E specs \in ImmediateMaps : reload(specs)
  \/ reload_remove
  \/ reload_drop
  \/ reload_upsert
  \/ add_insert
  \/ update_task
  \/ update_triggers
  \/ update_spec
  \/ activate
  \/ install
  \/ push_install
  \/ deactivate
  \/ uninstall
  \/ push_uninstall

SpecImmediate == Init /\ [][NextImmediate]_vars

\* a task with a Startup trigger, the same with another body, and the same
\* with an Immediate trigger for the Startup trigger
atstart == TaskSpec("once", "cmdB", <<StartupSpec>>)

atstart2 == TaskSpec("once", "cmdA", <<StartupSpec>>)

atonce == TaskSpec("once", "cmdB", <<ImmediateSpec>>)

\* the reconcile inputs that hold at most that task
StartupMaps ==
  {NoSpecs} \cup {[id \in {"A"} |-> spec] : spec \in {atstart, atstart2, atonce}}

\* the engine under those inputs, with no export call and no cron job
NextStartup ==
  \/ Advance
  \/ \E c \in DOMAIN ctxs : run_begin(c)
  \/ \E c \in DOMAIN ctxs : run_end(c)
  \/ \E specs \in StartupMaps : reload(specs)
  \/ reload_remove
  \/ reload_drop
  \/ reload_upsert
  \/ add_insert
  \/ update_task
  \/ update_swap
  \/ update_triggers
  \/ update_replace
  \/ update_spec
  \/ activate
  \/ install
  \/ push_install
  \/ deactivate
  \/ uninstall
  \/ push_uninstall

SpecStartup == Init /\ [][NextStartup]_vars

\* a task whose body fails and whose on_error is Action::Retry { .. }
retry == [immediate EXCEPT !.name = "retry", !.on_error = "Retry"]

\* the reconcile inputs with failing bodies of either on_error value
RetryMaps ==
  {NoSpecs} \cup {[id \in {"A"} |-> spec] : spec \in {cron, immediate, retry}}

NextRetry == Engine \/ \E specs \in RetryMaps : reload(specs)

SpecRetry == Init /\ [][NextRetry]_vars

(* -------------------------------- codec ------------------------------- *)

\* const MAGIC: [u8; 4] = [0x23, 0x33, 0x23, 0x33]
MAGIC == <<35, 51, 35, 51>>

\* 4 bytes magic + 4 bytes data length + 12 bytes nonce
HEADER_LEN == 20

\* Key = [u8; 32]: two keys
Keys == {[i \in 1..32 |-> 17], [i \in 1..32 |-> 42]}

\* random_nonce(): [u8; 12] filled by the thread's random generator; two of
\* its values
Nonces == {[i \in 1..12 |-> 1], [i \in 1..12 |-> 2]}

\* Response::Ok and Response::Error(String), the payloads encoded
Payloads ==
  { [variant |-> "Ok", data |-> <<>>],
    [variant |-> "Error", data |-> <<101>>] }

\* the bytes b[from..to) of the source, as a sequence
Slice(b, from, to) == SubSeq(b, from + 1, to)

\* little-endian bytes of n, as bincode writes u32 (w = 4) and u64 (w = 8)
RECURSIVE to_le_bytes(_, _)
to_le_bytes(n, w) ==
  IF w = 0 THEN <<>> ELSE <<n % 256>> \o to_le_bytes(n \div 256, w - 1)

RECURSIVE from_le_bytes(_)
from_le_bytes(b) ==
  IF b = <<>> THEN 0 ELSE b[1] + 256 * from_le_bytes(Tail(b))

\* the length field read with the low byte first
length_low_byte_first(b) == from_le_bytes(b)

\* u32::from_be_bytes
RECURSIVE from_be_bytes(_)
from_be_bytes(b) ==
  IF b = <<>> THEN 0
  ELSE b[Len(b)] + 256 * from_be_bytes(SubSeq(b, 1, Len(b) - 1))

\* buf.put_u32(n as u32): the low 32 bits of n, big-endian
put_u32(n) ==
  <<(n \div 16777216) % 256, (n \div 65536) % 256, (n \div 256) % 256,
    n % 256>>

\* the variant index serde gives the variants of Response
VariantIndex(variant) ==
  CASE variant = "Ok" -> 0 [] variant = "Error" -> 1 [] OTHER -> 2

\* bincode::serialize of a Response: the variant index as u32, then for
\* Error(String) and Object(Vec<u8>) the length as u64 and the bytes
bincode_serialize(t) ==
  to_le_bytes(VariantIndex(t.variant), 4)
    \o (IF t.variant = "Ok" THEN <<>>
        ELSE to_le_bytes(Len(t.data), 8) \o t.data)

\* bincode::deserialize::<Response>: Err when the bytes end early or the
\* variant index is none of Response's; bytes left over are allowed
bincode_deserialize(b) ==
  IF Len(b) < 4 THEN [ok |-> FALSE, msg |-> NoPayload]
  ELSE LET idx == from_le_bytes(Slice(b, 0, 4))
       IN  IF idx = 0
           THEN [ok |-> TRUE, msg |-> [variant |-> "Ok", data |-> <<>>]]
           ELSE IF idx > 2 \/ Len(b) < 12
           THEN [ok |-> FALSE, msg |-> NoPayload]
           ELSE LET n == from_le_bytes(Slice(b, 4, 12))
                IN  IF Len(b) < 12 + n
                    THEN [ok |-> FALSE, msg |-> NoPayload]
                    ELSE [ok |-> TRUE,
                          msg |-> [variant |-> IF idx = 1 THEN "Error"
                                               ELSE "Object",
                                   data |-> Slice(b, 12, 12 + n)]]

\* the Adler-32 sums (a, b) of a zlib stream's data
RECURSIVE Adler(_, _, _)
Adler(b, a, c) ==
  IF b = <<>> THEN <<a, c>>
  ELSE Adler(Tail(b), (a + b[1]) % 65521,
             (c + ((a + b[1]) % 65521)) % 65521)

Adler32(b) ==
  LET s == Adler(b, 1, 0)
  IN  <<s[2] \div 256, s[2] % 256, s[1] \div 256, s[1] % 256>>

\* ZlibEncoder::write_all and finish: a zlib stream of the bytes (header
\* 0x78 0x9c, the data as one final stored block: LEN, NLEN, the bytes; the
\* Adler-32 of the data)
Compress(b) ==
  <<120, 156, 1>> \o to_le_bytes(Len(b), 2) \o to_le_bytes(65535 - Len(b), 2)
    \o b \o Adler32(b)

\* ZlibDecoder::read_to_end: Err (corrupt stream) on a wrong header, block
\* or checksum; a stream that ends early gives the bytes read so far
Decompress(z) ==
  IF Len(z) < 2 THEN [ok |-> TRUE, data |-> <<>>]
  ELSE IF z[1] % 16 # 8 \/ (z[1] * 256 + z[2]) % 31 # 0
  THEN [ok |-> FALSE, data |-> <<>>]
  ELSE IF Len(z) < 7 THEN [ok |-> TRUE, data |-> <<>>]
  ELSE LET n == from_le_bytes(Slice(z, 3, 5))
           data == Slice(z, 7, IF Len(z) < 7 + n THEN Len(z) ELSE 7 + n)
       IN  IF z[3] # 1 \/ from_le_bytes(Slice(z, 5, 7)) # 65535 - n
           THEN [ok |-> FALSE, data |-> <<>>]
           ELSE IF Len(z) < 7 + n + 4 THEN [ok |-> TRUE, data |-> data]
           ELSE IF Slice(z, 7 + n, 7 + n + 4) # Adler32(data)
           THEN [ok |-> FALSE, data |-> data]
           ELSE [ok |-> TRUE, data |-> data]

\* the sum of the bytes
RECURSIVE SumBytes(_)
SumBytes(b) == IF b = <<>> THEN 0 ELSE b[1] + SumBytes(Tail(b))

\* AES-256 in counter mode: byte i of the key stream of (key, nonce)
KeyStream(key, nonce, i) ==
  (key[((i - 1) % 32) + 1] * 7 + nonce[((i - 1) % 12) + 1] * 13 + i) % 256

\* the GCM authentication tag (16 bytes) of a ciphertext under (key, nonce)
Tag(key, nonce, ct) ==
  LET sum == SumBytes(ct) + Len(ct)
  IN  [j \in 1..16 |-> (key[j] + nonce[((j - 1) % 12) + 1] * j + sum) % 256]

\* cipher.encrypt(nonce, bytes): the ciphertext followed by its tag
Seal(key, nonce, bytes) ==
  LET ct == [i \in 1..Len(bytes) |->
               (bytes[i] + KeyStream(key, nonce, i)) % 256]
  IN  ct \o Tag(key, nonce, ct)

\* a decrypt that does not verify the tag
Open_unverified(key, nonce, encbytes) ==
  IF Len(encbytes) < 16 THEN [ok |-> FALSE, bytes |-> <<>>]
  ELSE LET ct == Slice(encbytes, 0, Len(encbytes) - 16)
       IN  [ok |-> TRUE,
            bytes |-> [i \in 1..Len(ct) |->
                         (ct[i] + 256 - KeyStream(key, nonce, i)) % 256]]

\* cipher.decrypt(nonce, encbytes): Err unless the tag is the tag of the
\* ciphertext under (key, nonce)
Open(key, nonce, encbytes) ==
  IF Len(encbytes) < 16 THEN [ok |-> FALSE, bytes |-> <<>>]
  ELSE LET ct == Slice(encbytes, 0, Len(encbytes) - 16)
       IN  IF Slice(encbytes, Len(encbytes) - 16, Len(encbytes))
                # Tag(key, nonce, ct)
           THEN [ok |-> FALSE, bytes |-> <<>>]
           ELSE [ok |-> TRUE,
                 bytes |-> [i \in 1..Len(ct) |->
                              (ct[i] + 256 - KeyStream(key, nonce, i)) % 256]]

\* encode, from the compressed bytes on: encrypt under a nonce and put
\* MAGIC, the length, the nonce and the ciphertext in the buffer
Frame(b, bytes, key, nonce) ==
  LET encbytes == Seal(key, nonce, bytes)
  IN  b \o MAGIC \o put_u32(Len(encbytes)) \o nonce \o encbytes

\* protocol::encode(t, buf, key) with the nonce random_nonce() returned:
\* the buffer after it (serialisation, compression and encryption do not
\* fail on these payloads; encode returns true)
encode(t, b, key, nonce) ==
  Frame(b, Compress(bincode_serialize(t)), key, nonce)

\* the outcome of a decode call: the result, and the buffer after the call
Outcome(res, msg, rest, nonce) ==
  [res |-> res, msg |-> msg, rest |-> rest, nonce |-> nonce]

\* protocol::decode::<Response>(buf, key).  &buf[..4] and &buf[4..8] panic
\* on a shorter buffer; unwrap() panics on a stream ZlibDecoder rejects.
decode(b, key) ==
  IF Len(b) < 4 THEN Outcome("panic", NoPayload, b, <<>>)
  ELSE IF Slice(b, 0, 4) # MAGIC
  THEN Outcome("InvalidData", NoPayload, b, <<>>)
  ELSE IF Len(b) < 8 THEN Outcome("panic", NoPayload, b, <<>>)
  ELSE
    LET len == from_be_bytes(Slice(b, 4, 8))
    IN  IF Len(b) < HEADER_LEN + len
        THEN Outcome("NotEnoughData", NoPayload, b, <<>>)
        ELSE
          LET nonce == Slice(b, 8, 20)
              encbytes == Slice(b, HEADER_LEN, HEADER_LEN + len)
              rest == Slice(b, HEADER_LEN + len, Len(b))
              bytes == Open(key, nonce, encbytes)
              objbytes == Decompress(bytes.bytes)
              msg == bincode_deserialize(objbytes.data)
          IN  IF ~bytes.ok
              THEN Outcome("InvalidData", NoPayload, rest, nonce)
              ELSE IF ~objbytes.ok
              THEN Outcome("panic", NoPayload, rest, nonce)
              ELSE IF ~msg.ok
              THEN Outcome("InvalidData", NoPayload, rest, nonce)
              ELSE Outcome("Ok", msg.msg, rest, nonce)

\* what a peer puts on the byte stream: "frame", what encode produces;
\* "part", a strict prefix of that; "badmagic", a frame whose first byte is
\* not MAGIC's; "notzlib", a frame sealed under the key whose plaintext is
\* no zlib stream; "notbincode", one whose decompressed bytes are no Response
Item(kind, t, key, nonce, have) ==
  [kind |-> kind, payload |-> t, key |-> key, nonce |-> nonce, have |-> have]

\* the frames encode produces in an empty buffer, for every payload, key
\* and nonce
Encoded ==
  [t \in Payloads, key \in Keys, nonce \in Nonces |->
     encode(t, <<>>, key, nonce)]

\* the nonce of the frames a peer makes otherwise
ForgedNonce == [i \in 1..12 |-> 1]

\* the complete frames a peer makes otherwise, for every key
Forged ==
  [kind \in {"badmagic", "notzlib", "notbincode"}, key \in Keys,
   nonce \in {ForgedNonce} |->
     CASE kind = "badmagic" ->
            [encode([variant |-> "Ok", data |-> <<>>], <<>>, key, nonce)
               EXCEPT ![1] = 0]
       [] kind = "notzlib" -> Frame(<<>>, <<0, 1, 2, 3>>, key, nonce)
       [] OTHER -> Frame(<<>>, Compress(<<9>>), key, nonce)]

\* all the bytes of an item
ItemBytes(x) ==
  IF x.kind \in {"frame", "part"}
  THEN Encoded[x.payload, x.key, x.nonce]
  ELSE Forged[x.kind, x.key, x.nonce]

\* the item is in the buffer with all its bytes
Whole(x) == x.kind # "part"

\* the lengths of the strict prefixes written: inside MAGIC, inside the
\* length, inside the nonce, the header alone, all but the last byte
PartLens(n) == {1, 5, 10, HEADER_LEN, n - 1}

\* a sender encodes payload t onto the stream: encode(t, &mut buf, key)
write_frame(t, key) ==
  /\ stimuli < MaxFrames
  /\ out.res # "panic"
  /\ \A k \in DOMAIN sent : Whole(sent[k])
  /\ \E nonce \in Nonces :
       /\ buf' = buf \o Encoded[t, key, nonce]
       /\ sent' = Append(sent, Item("frame", t, key, nonce,
                                    Len(Encoded[t, key, nonce])))
  /\ stimuli' = stimuli + 1
  /\ UNCHANGED <<rx, ticking, sched, ctl, hosts, now, tasks, jobs, ctxs, mgr, nextJob,
                 exported, hist, crond, drivers, fires, out, agent, files>>

\* the first n bytes of a frame have arrived in an empty buffer
\* (wfile.read_buf(&mut buf) returns what the socket holds)
write_part(t, key, nonce) ==
  /\ stimuli < MaxFrames
  /\ out.res # "panic"
  /\ buf = <<>>
  /\ sent = <<>>
  /\ \E n \in PartLens(Len(Encoded[t, key, nonce])) :
       /\ buf' = SubSeq(Encoded[t, key, nonce], 1, n)
       /\ sent' = <<Item("part", t, key, nonce, n)>>
  /\ stimuli' = stimuli + 1
  /\ UNCHANGED <<rx, ticking, sched, ctl, hosts, now, tasks, jobs, ctxs, mgr, nextJob,
                 exported, hist, crond, drivers, fires, out, agent, files>>

\* the rest of the frame arrives
write_rest ==
  /\ out.res # "panic"
  /\ Len(sent) = 1
  /\ sent[1].kind = "part"
  /\ buf' = ItemBytes(sent[1])
  /\ sent' = <<[sent[1] EXCEPT !.kind = "frame", !.have = Len(buf')]>>
  /\ UNCHANGED <<rx, ticking, sched, ctl, hosts, now, tasks, jobs, ctxs, mgr, nextJob,
                 stimuli, exported, hist, crond, drivers, fires, out, agent,
                 files>>

\* a peer writes a complete frame that encode did not produce
write_forged(kind, key, nonce) ==
  /\ stimuli < MaxFrames
  /\ out.res # "panic"
  /\ \A k \in DOMAIN sent : Whole(sent[k])
  /\ LET x == Item(kind, [variant |-> "Ok", data |-> <<>>], key, nonce, 0)
     IN  /\ buf' = buf \o ItemBytes(x)
         /\ sent' = Append(sent, [x EXCEPT !.have = Len(ItemBytes(x))])
  /\ stimuli' = stimuli + 1
  /\ UNCHANGED <<rx, ticking, sched, ctl, hosts, now, tasks, jobs, ctxs, mgr, nextJob,
                 exported, hist, crond, drivers, fires, out, agent, files>>

\* a receiver that has read bytes calls decode(&mut buf, key)
read_frame(key) ==
  /\ out.res # "panic"
  /\ buf # <<>>
  /\ LET r == decode(buf, key)
         consumed == Len(buf) - Len(r.rest)
     IN  /\ buf' = r.rest
         /\ out' = [res |-> r.res, msg |-> r.msg, consumed |-> consumed,
                    key |-> key, nonce |-> r.nonce, of |-> Head(sent)]
         /\ sent' = IF consumed > 0 THEN Tail(sent) ELSE sent
  /\ UNCHANGED <<rx, ticking, sched, ctl, hosts, now, tasks, jobs, ctxs, mgr, nextJob,
                 stimuli, exported, hist, crond, drivers, fires, agent,
                 files>>

\* the codec between a sender, a peer and a receiver
NextCodec ==
  \/ \E t \in Payloads, key \in Keys : write_frame(t, key)
  \/ \E t \in Payloads, key \in Keys, nonce \in Nonces :
       write_part(t, key, nonce)
  \/ write_rest
  \/ \E kind \in {"badmagic", "notzlib", "notbincode"}, key \in Keys :
       write_forged(kind, key, ForgedNonce)
  \/ \E key \in Keys : read_frame(key)

SpecCodec == Init /\ [][NextCodec]_vars

\* the receive loop changes to r, the buffer to b, what is in it to x and
\* the last decode call to o; nothing else does
RxStep(r, b, x, o) ==
  /\ rx' = r
  /\ buf' = b
  /\ sent' = x
  /\ out' = o
  /\ UNCHANGED <<now, tasks, jobs, ctxs, mgr, nextJob, stimuli, exported,
                 hist, crond, drivers, fires, agent, files, ctl, hosts,
                 sched, ticking>>

\* a connection is made and its receive loop starts: handle_agent on the
\* controller, the 'resp loop of Agent::pull or Agent::report on the agent
\* (after buf.clear()), with a fresh or cleared BytesMut
rx_open(side, key) ==
  /\ rx.pc \in {"", "closed"}
  /\ RxStep([NoRx EXCEPT !.side = side, !.pc = "loop", !.key = key,
                         !.failed = rx.failed],
            <<>>, <<>>, NoOut)

\* read_buf returns 0: the controller returns Ok(()), the agent
\* Err(ConnectionReset)
rx_eof ==
  /\ rx.pc = "loop"
  /\ Len(buf) > HEADER_LEN => decode(buf, rx.key).res = "NotEnoughData"
  /\ RxStep([rx EXCEPT !.pc = "closed",
                       !.result = IF rx.side = "controller" THEN "Ok"
                                  ELSE "Err(ConnectionReset)"],
            buf, sent, out)

\* a receive loop that goes on to the next frame after InvalidData
rx_decode_goes_on ==
  /\ rx.pc = "loop"
  /\ Len(buf) > HEADER_LEN
  /\ LET r == decode(buf, rx.key)
         consumed == Len(buf) - Len(r.rest)
     IN  RxStep(CASE r.res = "NotEnoughData" -> [rx EXCEPT !.partial = TRUE]
                  [] r.res = "InvalidData" -> rx
                  [] r.res = "panic" -> [rx EXCEPT !.pc = "dead"]
                  [] OTHER -> [rx EXCEPT !.pc = "handle"],
                r.rest,
                IF consumed > 0 THEN Tail(sent) ELSE sent,
                [res |-> r.res, msg |-> r.msg, consumed |-> consumed,
                 key |-> rx.key, nonce |-> r.nonce, of |-> Head(sent)])

\* one turn of while buf.len() > HEADER_LEN { match decode(&mut buf, key)
\* { Ok(msg) => msg, Err(NotEnoughData) => break, Err(InvalidData) =>
\* return Err(ErrorKind::InvalidData.into()) } .. }; after the break the
\* outer loop reads again; a panic inside decode ends the task
rx_decode ==
  /\ rx.pc = "loop"
  /\ Len(buf) > HEADER_LEN
  /\ LET r == decode(buf, rx.key)
         consumed == Len(buf) - Len(r.rest)
     IN  RxStep(CASE r.res = "NotEnoughData" -> [rx EXCEPT !.partial = TRUE]
                  [] r.res = "InvalidData" ->
                       [rx EXCEPT !.pc = "closed",
                                  !.result = "Err(InvalidData)",
                                  !.failed = @ \cup {rx.side}]
                  [] r.res = "panic" -> [rx EXCEPT !.pc = "dead"]
                  [] OTHER -> [rx EXCEPT !.pc = "handle"],
                r.rest,
                IF consumed > 0 THEN Tail(sent) ELSE sent,
                [res |-> r.res, msg |-> r.msg, consumed |-> consumed,
                 key |-> rx.key, nonce |-> r.nonce, of |-> Head(sent)])

\* the rest of the turn.  handle_agent: the response is encoded and
\* written, a failed write returns Err, and the while goes on.  Agent::pull:
\* Response::Error and what is no Response::Object return Err.
\* Agent::report: let Response::Ok = msg else { return Err }; break 'resp
rx_handle(ok) ==
  /\ rx.pc = "handle"
  /\ rx.side # "controller" => ok
  /\ RxStep(CASE rx.side = "controller" /\ ok ->
                   [rx EXCEPT !.pc = "loop", !.handled = @ + 1]
              [] rx.side = "controller" /\ ~ok ->
                   [rx EXCEPT !.pc = "closed", !.result = "Err"]
              [] rx.side = "report" /\ out.msg.variant = "Ok" ->
                   [rx EXCEPT !.pc = "closed", !.result = "Ok",
                              !.handled = @ + 1]
              [] OTHER ->
                   [rx EXCEPT !.pc = "closed",
                              !.result = "Err(InvalidData)"],
            buf, sent, out)

\* the two ends of a connection: while the receive loop reads, the peer's
\* bytes arrive; the loop decodes what it has
NextChannel ==
  \/ \E side \in {"controller", "pull", "report"}, key \in Keys :
       rx_open(side, key)
  \/ \E t \in Payloads, key \in Keys : rx.pc = "loop" /\ write_frame(t, key)
  \/ \E t \in Payloads, key \in Keys, nonce \in Nonces :
       rx.pc = "loop" /\ write_part(t, key, nonce)
  \/ rx.pc = "loop" /\ write_rest
  \/ \E kind \in {"badmagic", "notzlib", "notbincode"}, key \in Keys :
       rx.pc = "loop" /\ write_forged(kind, key, ForgedNonce)
  \/ rx_eof
  \/ rx_decode
  \/ \E ok \in BOOLEAN : rx_handle(ok)

SpecChannel == Init /\ [][NextChannel]_vars

(* ----------------------------- tick driver ---------------------------- *)
\* (the agent process follows the tick driver)

\* the schedules of the jobs given to the scheduler
Schedules == {"0/1 * * * * *", "0/2 * * * * *"}

\* the history of a job just created: no instant fired, no tick seen yet
NewFires == [created |-> now, at |-> <<>>, ticked |-> now]

\* a handle for the driver task tokio::spawn starts: the least number that
\* names no live driver
FreshDriver == CHOOSE d \in 1..(MaxDrivers + 1) : d \notin drivers

\* TaskManager::start_tick: spawn a driver (interval of 1 s, loop { tick;
\* crond.lock().await.tick().await }); self.crond.replace(handle).  The
\* handle replaced is dropped, which detaches its task: the old driver, if
\* any, stays alive.
start_tick ==
  /\ Cardinality(drivers) < MaxDrivers
  /\ drivers' = drivers \cup {FreshDriver}
  /\ crond' = FreshDriver
  /\ UNCHANGED <<rx, ticking, sched, ctl, hosts, now, tasks, jobs, ctxs, mgr, nextJob,
                 stimuli, exported, hist, fires, buf, sent, out, agent,
                 files>>

\* TaskManager::stop_tick: if let Some(handle) = self.crond.take()
\* { handle.abort(); handle.await.unwrap_err() }
stop_tick ==
  /\ crond' = None
  /\ drivers' = drivers \ {crond}
  /\ UNCHANGED <<rx, ticking, sched, ctl, hosts, now, tasks, jobs, ctxs, mgr, nextJob,
                 stimuli, exported, hist, fires, buf, sent, out, agent,
                 files>>

\* one turn of the loop of driver d: interval.tick().await has completed;
\* crond.lock().await.tick().await, i.e. CronScheduler::tick: for job in
\* &mut self.jobs { job.tick().await }.  The jobs' closures record each
\* firing.
tick_driver(d) ==
  /\ d \in drivers
  /\ jobs' = [k \in DOMAIN jobs |-> ScheduledJob_tick(jobs[k], <<>>).job]
  /\ fires' = [id \in DOMAIN fires |->
                 IF \E k \in DOMAIN jobs : jobs[k].job_id = id
                 THEN LET k == CHOOSE n \in DOMAIN jobs : jobs[n].job_id = id
                      IN  [fires[id] EXCEPT
                             !.at = @ \o ScheduledJob_tick(jobs[k], <<>>).fired,
                             !.ticked = now]
                 ELSE fires[id]]
  /\ UNCHANGED <<rx, ticking, sched, ctl, hosts, now, tasks, ctxs, mgr, nextJob, stimuli,
                 exported, hist, crond, drivers, buf, sent, out, agent,
                 files>>

\* a caller of the scheduler: cron.lock().await.add(ScheduledJob::from(
\* schedule, f)) with a closure f that records its firings
sched_add(expr) ==
  /\ nextJob <= MaxJobs
  /\ jobs' = CronScheduler_add(jobs, ScheduledJob(nextJob, expr, 0))
  /\ fires' = (nextJob :> NewFires) @@ fires
  /\ nextJob' = nextJob + 1
  /\ UNCHANGED <<rx, ticking, sched, ctl, hosts, now, tasks, ctxs, mgr, stimuli, exported,
                 hist, crond, drivers, buf, sent, out, agent, files>>

\* a caller of the scheduler: cron.lock().await.remove(uuid)
sched_remove(uuid) ==
  /\ stimuli < MaxStimuli
  /\ stimuli' = stimuli + 1
  /\ jobs' = CronScheduler_remove(jobs, uuid)
  /\ UNCHANGED <<rx, ticking, sched, ctl, hosts, now, tasks, ctxs, mgr, nextJob, exported,
                 hist, crond, drivers, fires, buf, sent, out, agent, files>>

\* the scheduler and its tick driver under calls of start_tick, stop_tick,
\* add and remove, while the clock advances
NextTick ==
  \/ Advance
  \/ start_tick
  \/ stop_tick
  \/ \E d \in drivers : tick_driver(d)
  \/ \E expr \in Schedules : sched_add(expr)
  \/ \E k \in DOMAIN jobs : sched_remove(jobs[k].job_id)

SpecTick == Init /\ [][NextTick]_vars

(* ---------------------------- agent process --------------------------- *)

\* config.pull_interval and config.report_interval, in seconds
pull_interval == 1

report_interval == 1

\* self.task_file: args.task_file, by default data_dir()/agent/tasks.json
TaskFiles == {"tasks.json", "data_dir/agent/tasks.json"}

\* the spec sets the server answers a PullTask with
SpecSets == {[id \in {"A"} |-> cron], [id \in {"A"} |-> immediate]}

\* serde_json of a TaskSpec: the object's members
SpecJson(spec) ==
  <<<<"name", spec.name>>, <<"task", spec.task>>,
    <<"on_error", spec.on_error>>,
    <<"triggers", [k \in DOMAIN spec.triggers |->
                     <<spec.triggers[k].kind, spec.triggers[k].expr>>]>>>>

\* serde_json::to_writer of a HashMap<Uuid, TaskSpec>: an object with one
\* member per id, in no order
ToJson(specs) == {<<id, SpecJson(specs[id])>> : id \in DOMAIN specs}

\* serde_json::from_reader::<HashMap<Uuid, TaskSpec>>
FromJson(json) ==
  [id \in {m[1] : m \in json} |->
     LET o == (CHOOSE m \in json : m[1] = id)[2]
     IN  [name |-> o[1][2], task |-> o[2][2], on_error |-> o[3][2],
          triggers |-> [k \in DOMAIN o[4][2] |->
                          [kind |-> o[4][2][k][1], expr |-> o[4][2][k][2]]]]]

\* config::load(path): Err when the file cannot be opened
load(path) ==
  IF path \in DOMAIN files
  THEN [ok |-> TRUE, specs |-> FromJson(files[path])]
  ELSE [ok |-> FALSE, specs |-> NoSpecs]

\* config::dump(cfg, path): File::create and to_writer; the files after it
dump(cfg, path) == (path :> ToJson(cfg)) @@ files

\* pull_loop: the loop body starts with self.pull()
pull_loop == "connect"

\* a report loop that reports before it waits
report_loop_reports_first == "connect"

\* report_loop: the loop body starts with interval.tick().await
report_loop == "tick"

\* Agent::start for a process given --task-file path and a config with these
\* pull and report flags: load the task file and reload from it if that
\* succeeds; start_tick; spawn the pull loop if self.pull and the report loop
\* if self.report, each creating its interval ticker
Agent_start(path, pull, report) ==
  /\ agent.main = ""
  /\ agent.task_file = ""
       \/ <<path, pull, report>>
            = <<agent.task_file, agent.do_pull, agent.do_report>>
  /\ agent' = [agent EXCEPT
                 !.task_file = path, !.do_pull = pull, !.do_report = report,
                 !.main = "started", !.created = now,
                 !.reloaded = IF load(path).ok THEN <<load(path).specs>>
                              ELSE <<>>,
                 !.pull = IF pull THEN pull_loop ELSE "",
                 !.pull_files = IF pull THEN files ELSE <<>>,
                 !.report = IF report THEN report_loop ELSE ""]
  /\ crond' = FreshDriver
  /\ drivers' = drivers \cup {FreshDriver}
  /\ UNCHANGED <<rx, ticking, sched, ctl, hosts, now, tasks, jobs, ctxs, mgr, nextJob,
                 stimuli, exported, hist, fires, buf, sent, out, files>>

\* the process ends (ctrl_c, or it is killed): nothing but the files stays
Agent_exit ==
  /\ agent.main = "started"
  /\ stimuli < MaxStimuli
  /\ stimuli' = stimuli + 1
  /\ agent' = [NoAgent EXCEPT !.task_file = agent.task_file,
                              !.do_pull = agent.do_pull,
                              !.do_report = agent.do_report,
                              !.last_pulled = agent.last_pulled]
  /\ crond' = None
  /\ drivers' = {}
  /\ UNCHANGED <<rx, ticking, sched, ctl, hosts, now, tasks, jobs, ctxs, mgr, nextJob,
                 exported, hist, fires, buf, sent, out, files>>

\* the agent's variable changes to a; nothing else does
AgentStep(a) ==
  /\ agent' = a
  /\ UNCHANGED <<rx, ticking, sched, ctl, hosts, now, tasks, jobs, ctxs, mgr, nextJob,
                 stimuli, exported, hist, crond, drivers, fires, buf, sent,
                 out, files>>

\* Agent::pull returns Err(e): pull_loop logs it and waits for the ticker
PullErr == [agent EXCEPT !.pull = "tick", !.pull_err = "Err"]

\* a panic inside the spawned loop task ends the task
PullPanic == [agent EXCEPT !.pull = "dead", !.pull_err = "panic"]

\* pull: TcpStream::connect(&self.server).await?
pull_connect(ok) ==
  /\ agent.pull = "connect"
  /\ AgentStep(IF ok THEN [agent EXCEPT !.pull = "nodelay"]
               ELSE PullErr)

\* pull: stream.set_nodelay(true).expect("Failed to set nodelay")
pull_nodelay(ok) ==
  /\ agent.pull = "nodelay"
  /\ AgentStep(IF ok THEN [agent EXCEPT !.pull = "send"]
               ELSE PullPanic)

\* pull: encode the PullTask request; wfile.write_all(&buf).await?;
\* wfile.flush().await?
pull_send(ok) ==
  /\ agent.pull = "send"
  /\ AgentStep(IF ok THEN [agent EXCEPT !.pull = "recv"]
               ELSE PullErr)

\* pull: read_buf (an Err, or 0 bytes read) and, with more than HEADER_LEN
\* bytes, decode: NotEnoughData reads on, InvalidData returns Err, a frame
\* that does not decompress panics inside decode, Ok goes on
pull_recv(res) ==
  /\ agent.pull = "recv"
  /\ AgentStep(CASE res \in {"Err", "eof"} -> PullErr
                 [] res = "InvalidData" -> PullErr
                 [] res = "panic" -> PullPanic
                 [] res = "NotEnoughData" -> agent
                 [] OTHER -> [agent EXCEPT !.pull = "response"])

\* a pull that saves what it received before it looks at it
pull_response_saves_first(resp) ==
  /\ agent.pull = "response"
  /\ agent' = IF resp.variant = "Object" /\ resp.data # <<>>
              THEN [agent EXCEPT !.pull = "dump", !.msg = resp.data]
              ELSE PullErr
  /\ files' = IF resp.variant = "Object" /\ resp.data # <<>>
              THEN files ELSE dump(NoSpecs, "tasks.json")
  /\ UNCHANGED <<rx, ticking, sched, ctl, hosts, now, tasks, jobs, ctxs, mgr, nextJob,
                 stimuli, exported, hist, crond, drivers, fires, buf, sent,
                 out>>

\* pull: match msg { Object(_) => {}, Error(_) and others => return Err };
\* msg.into() deserialises the object's bytes or returns Err
pull_response(resp) ==
  /\ agent.pull = "response"
  /\ AgentStep(CASE resp.variant # "Object" -> PullErr
                 [] resp.data = <<>> -> PullErr
                 [] OTHER -> [agent EXCEPT !.pull = "dump",
                                           !.msg = resp.data])

\* pull: config::dump(&msg, "tasks.json").expect("save task failed")
pull_dump(ok) ==
  /\ agent.pull = "dump"
  /\ agent' = IF ok THEN [agent EXCEPT !.pull = "reload", !.pulled = TRUE,
                                       !.last_pulled = agent.msg]
              ELSE PullPanic
  /\ files' = IF ok THEN dump(agent.msg[1], "tasks.json") ELSE files
  /\ UNCHANGED <<rx, ticking, sched, ctl, hosts, now, tasks, jobs, ctxs, mgr, nextJob,
                 stimuli, exported, hist, crond, drivers, fires, buf, sent,
                 out>>

\* pull: self.tm.lock().await.reload(msg).await (reload returns Ok(()));
\* break 'resp; Ok(())
pull_reload ==
  /\ agent.pull = "reload"
  /\ AgentStep([agent EXCEPT !.pull = "tick", !.reloaded = agent.msg,
                             !.pull_called = TRUE, !.msg = <<>>])

\* the deadline of a tokio interval ticker of this period after n ticks: the
\* first tick completes at once, each later one a period after the one before
Deadline(n, period) == agent.created + n * period

\* pull_loop: interval.tick().await completes
pull_tick ==
  /\ agent.pull = "tick"
  /\ now >= Deadline(agent.pull_ticks, pull_interval)
  /\ AgentStep([agent EXCEPT !.pull = "connect", !.pull_err = "",
                             !.pull_files = files, !.pull_called = FALSE,
                             !.pull_ticks = @ + 1])

\* Agent::report returns Err(e): report_loop logs it and waits again
ReportErr ==
  [agent EXCEPT !.report = "tick", !.report_err = "Err", !.waited = FALSE,
                !.connected = FALSE, !.drained = FALSE]

\* a panic inside the spawned loop task ends the task
ReportPanic == [agent EXCEPT !.report = "dead", !.report_err = "panic"]

\* a report loop whose turn starts with the export
report_tick_drains_first ==
  /\ agent.report = "tick"
  /\ now >= Deadline(agent.report_ticks, report_interval)
  /\ AgentStep([agent EXCEPT !.report = "export", !.report_err = "",
                             !.waited = TRUE, !.report_ticks = @ + 1])

\* report_loop: interval.tick().await completes
report_tick ==
  /\ agent.report = "tick"
  /\ now >= Deadline(agent.report_ticks, report_interval)
  /\ AgentStep([agent EXCEPT !.report = "connect", !.report_err = "",
                             !.waited = TRUE, !.report_ticks = @ + 1])

\* report: TcpStream::connect(&self.server).await?
report_connect(ok) ==
  /\ agent.report = "connect"
  /\ AgentStep(IF ok THEN [agent EXCEPT !.report = "nodelay",
                                         !.connected = TRUE]
               ELSE ReportErr)

\* report: stream.set_nodelay(true).expect("Failed to set nodelay")
report_nodelay(ok) ==
  /\ agent.report = "nodelay"
  /\ AgentStep(IF ok THEN [agent EXCEPT !.report = "export"]
               ELSE ReportPanic)

\* report, building the request: self.tm.lock().await.export_log() is
\* called once the manager lock is free (TaskManager::export_log, entry; its
\* loop is export_task)
report_export ==
  /\ agent.report = "export"
  /\ mgr.pc = "idle"
  /\ mgr' = [Idle EXCEPT !.pc = "export", !.todo = DOMAIN tasks,
                         !.res = NoSpecs]
  /\ exported' = NoSpecs
  /\ UNCHANGED <<rx, ticking, sched, ctl, hosts, now, tasks, jobs, ctxs, nextJob, stimuli,
                 hist, crond, drivers, fires, buf, sent, out, agent, files>>

\* report: export_log returns, every buffer drained; the request
\* ReportStatus { id, log } is built
report_log ==
  /\ agent.report = "export"
  /\ mgr.pc = "export"
  /\ mgr.todo = {}
  /\ exported' = mgr.res
  /\ mgr' = Idle
  /\ hist' = [hist EXCEPT !.op = "export"]
  /\ agent' = [agent EXCEPT !.report = "send", !.log = mgr.res,
                             !.drained = TRUE]
  /\ UNCHANGED <<rx, ticking, sched, ctl, hosts, now, tasks, jobs, ctxs, nextJob, stimuli,
                 crond, drivers, fires, buf, sent, out, files>>

\* the ids of the events of a log
IdsOf(log) ==
  UNION {{log[id][k].id : k \in DOMAIN log[id]} : id \in DOMAIN log}

\* report: encode the ReportStatus request (false returns Err); write_all;
\* flush.  The request is not kept
report_send(ok) ==
  /\ agent.report = "send"
  /\ AgentStep(IF ok
               THEN [agent EXCEPT !.report = "recv", !.log = NoSpecs,
                       !.wire = @ \cup IdsOf(agent.log),
                       !.twice = @ \cup (agent.wire \cap IdsOf(agent.log))]
               ELSE [ReportErr EXCEPT !.log = NoSpecs,
                       !.unsent = @ \cup IdsOf(agent.log)])

\* report: read_buf and decode as in pull; let Response::Ok = msg else
\* { return Err }; Ok(())
report_recv(res) ==
  /\ agent.report = "recv"
  /\ AgentStep(CASE res \in {"Err", "eof"} -> ReportErr
                 [] res = "InvalidData" -> ReportErr
                 [] res = "panic" -> ReportPanic
                 [] res = "NotEnoughData" -> agent
                 [] res = "Ok" -> [agent EXCEPT !.report = "tick",
                                                !.waited = FALSE,
                                                !.connected = FALSE,
                                                !.drained = FALSE]
                 [] OTHER -> ReportErr)

\* what read_buf and decode give a loop: an io error, end of stream,
\* decode's results, and for report a response that is not Response::Ok
RecvResults == {"Err", "eof", "NotEnoughData", "InvalidData", "panic", "Ok"}

\* the responses a pull decodes: Ok, Error(e), Object(bytes) whose bytes
\* deserialise to a spec set, Object(bytes) whose bytes do not
Responses ==
  {[variant |-> "Ok", data |-> <<>>], [variant |-> "Error", data |-> <<>>],
   [variant |-> "Object", data |-> <<>>]}
    \cup {[variant |-> "Object", data |-> <<specs>>] : specs \in SpecSets}

\* the agent process, its two loops and the clock
NextAgent ==
  \/ Advance
  \/ \E path \in TaskFiles, pull, report \in BOOLEAN :
       Agent_start(path, pull, report)
  \/ Agent_exit
  \/ \E ok \in BOOLEAN : pull_connect(ok)
  \/ \E ok \in BOOLEAN : pull_nodelay(ok)
  \/ \E ok \in BOOLEAN : pull_send(ok)
  \/ \E res \in RecvResults : pull_recv(res)
  \/ \E resp \in Responses : pull_response(resp)
  \/ \E ok \in BOOLEAN : pull_dump(ok)
  \/ pull_reload
  \/ pull_tick
  \/ report_tick
  \/ \E ok \in BOOLEAN : report_connect(ok)
  \/ \E ok \in BOOLEAN : report_nodelay(ok)
  \/ report_export
  \/ report_log
  \/ \E ok \in BOOLEAN : report_send(ok)
  \/ \E res \in RecvResults \cup {"other"} : report_recv(res)

SpecAgent == Init /\ [][NextAgent]_vars

\* the reload inputs while the report loop is explored: the task with the
\* every-second trigger
ReportMaps == {[id \in {"A"} |-> cron]}

\* the report loop of a started agent together with the engine it drains:
\* the reload calls (of the bootstrap or of a pull) bring the task, the tick
\* driver fires it, its firings run
NextReport ==
  \/ Advance
  \/ CronScheduler_tick
  \/ \E c \in DOMAIN ctxs : run_begin(c)
  \/ \E c \in DOMAIN ctxs : run_end(c)
  \/ \E specs \in ReportMaps : reload(specs)
  \/ reload_remove
  \/ reload_upsert
  \/ add_insert
  \/ update_task
  \/ update_triggers
  \/ update_spec
  \/ activate
  \/ install
  \/ push_install
  \/ export_task
  \/ Agent_start("tasks.json", TRUE, TRUE)
  \/ report_tick
  \/ \E ok \in BOOLEAN : report_connect(ok)
  \/ \E ok \in BOOLEAN : report_nodelay(ok)
  \/ report_export
  \/ report_log
  \/ \E ok \in BOOLEAN : report_send(ok)
  \/ \E res \in RecvResults \cup {"other"} : report_recv(res)

SpecReport == Init /\ [][NextReport]_vars

(* --------------------------- scheduler mutex -------------------------- *)

\* the scheduler variable changes to m, with the jobs js, the contexts cs
\* and the next job id n; nothing else does
SchedStep(m, js, cs, n) ==
  /\ sched' = m
  /\ jobs' = js
  /\ ctxs' = cs
  /\ nextJob' = n
  /\ UNCHANGED <<now, tasks, mgr, exported, hist, crond, drivers, fires, buf,
                 sent, out, agent, files, ctl, hosts, ticking, rx>>

\* crond.lock().await of the tick driver (manager.rs), of CronTrigger::install
\* and of CronTrigger::uninstall (trigger.rs): the caller gets the mutex when
\* no one holds it.  The calls of install and uninstall are outside events.
cron_lock(who, uuid) ==
  /\ sched.who = ""
  /\ who = "add" => nextJob <= MaxJobs
  /\ who = "remove" => uuid \in {jobs[k].job_id : k \in DOMAIN jobs}
  /\ who # "tick" => stimuli < MaxStimuli
  /\ stimuli' = IF who = "tick" THEN stimuli ELSE stimuli + 1
  /\ SchedStep([who |-> who, k |-> 1,
                uuid |-> IF who = "remove" THEN uuid ELSE 0, at |-> jobs,
                busy |-> \E c \in DOMAIN ctxs : ctxs[c].in_run # <<>>],
               jobs, ctxs, nextJob)

\* a tick that awaits the futures it starts: it goes on when the job's
\* context has no firing waiting or running
tick_job_awaits ==
  /\ sched.who = "tick"
  /\ sched.k <= Len(jobs)
  /\ LET job == jobs[sched.k]
         r == ScheduledJob_tick(job, <<>>)
     IN  /\ ctxs[job.ctx].spawned = 0
         /\ ContextFree(job.ctx)
         /\ UNCHANGED stimuli
         /\ SchedStep([sched EXCEPT !.k = @ + 1],
                      [jobs EXCEPT ![sched.k] = r.job],
                      Spawn(ctxs, job.ctx, Len(r.fired)), nextJob)

\* CronScheduler::tick, one turn of for job in &mut self.jobs
\* { job.tick().await }: ScheduledJob::tick spawns a future per due instant
\* and awaits none of them
tick_job ==
  /\ sched.who = "tick"
  /\ sched.k <= Len(jobs)
  /\ LET job == jobs[sched.k]
         r == ScheduledJob_tick(job, <<>>)
     IN  /\ UNCHANGED stimuli
         /\ SchedStep([sched EXCEPT !.k = @ + 1],
                      [jobs EXCEPT ![sched.k] = r.job],
                      Spawn(ctxs, job.ctx, Len(r.fired)), nextJob)

\* a tick that starts over instead of returning, the guard kept
tick_unlock_never ==
  /\ sched.who = "tick"
  /\ sched.k > Len(jobs)
  /\ UNCHANGED stimuli
  /\ SchedStep([sched EXCEPT !.k = 1], jobs, ctxs, nextJob)

\* CronScheduler::tick returns; the guard of crond.lock().await.tick().await
\* is dropped at the end of the statement
tick_unlock ==
  /\ sched.who = "tick"
  /\ sched.k > Len(jobs)
  /\ UNCHANGED stimuli
  /\ SchedStep(Unlocked, jobs, ctxs, nextJob)

\* CronTrigger::install of a new task's trigger: self.crond.lock().await
\* .add(sched_job), the closure holding the task's context; the guard is
\* dropped
locked_add(expr, body) ==
  /\ sched.who = "add"
  /\ UNCHANGED stimuli
  /\ SchedStep(Unlocked,
               CronScheduler_add(jobs,
                                 ScheduledJob(nextJob, expr, Len(ctxs) + 1)),
               Append(ctxs, NewContext(body)), nextJob + 1)

\* CronTrigger::uninstall: self.crond.lock().await.remove(uuid); the guard
\* is dropped
locked_remove ==
  /\ sched.who = "remove"
  /\ UNCHANGED stimuli
  /\ SchedStep(Unlocked, CronScheduler_remove(jobs, sched.uuid),
               Collect(ctxs, tasks, mgr,
                       CronScheduler_remove(jobs, sched.uuid)),
               nextJob)

\* what the holder of the mutex does next
HolderStep ==
  \/ tick_job
  \/ tick_unlock
  \/ \E expr \in Schedules : locked_add(expr, "cmdA")
  \/ locked_remove

\* the scheduler under its mutex: the tick driver, callers of add and
\* remove, the clock, and the firings, which never end unless they are
\* scheduled to
NextSched ==
  \/ Advance
  \/ \E c \in DOMAIN ctxs : run_begin(c)
  \/ \E c \in DOMAIN ctxs : run_end(c)
  \/ \E who \in {"tick", "add", "remove"}, uuid \in 1..MaxJobs :
       cron_lock(who, uuid)
  \/ tick_job
  \/ tick_unlock
  \/ \E expr \in Schedules : locked_add(expr, "cmdA")
  \/ locked_remove

SpecSched == Init /\ [][NextSched]_vars

\* the tick drivers change to t, the mutex to m, the jobs to js and the
\* history of the firings to f; nothing else does
DriverStep(t, m, js, f) ==
  /\ ticking' = t
  /\ sched' = m
  /\ jobs' = js
  /\ fires' = f
  /\ UNCHANGED <<now, tasks, ctxs, mgr, nextJob, stimuli, exported, hist,
                 crond, drivers, buf, sent, out, agent, files, ctl, hosts, rx>>

\* a driver that enters the scheduler whoever is in it
driver_lock_shared(d) ==
  /\ d \in drivers
  /\ d \notin DOMAIN ticking
  /\ DriverStep((d :> [k |-> 1, pc |-> "job", last_run |-> 0]) @@ ticking,
                [Unlocked EXCEPT !.who = "tick", !.uuid = d], jobs, fires)

\* the loop of driver d in TaskManager::start_tick: interval.tick().await
\* has completed and crond.lock().await grants the mutex, which it does when
\* no one holds it
driver_lock(d) ==
  /\ d \in drivers
  /\ d \notin DOMAIN ticking
  /\ sched.who = ""
  /\ DriverStep((d :> [k |-> 1, pc |-> "job", last_run |-> 0]) @@ ticking,
                [Unlocked EXCEPT !.who = "tick", !.uuid = d], jobs, fires)

\* ScheduledJob::tick of the job driver d is at, its first half: the
\* iterator self.schedule.after(&self.last_run) is made from last_run
driver_after(d) ==
  /\ d \in DOMAIN ticking
  /\ ticking[d].pc = "job"
  /\ ticking[d].k <= Len(jobs)
  /\ DriverStep([ticking EXCEPT ![d].pc = "for",
                                ![d].last_run = jobs[ticking[d].k].last_run],
                sched, jobs, fires)

\* ScheduledJob::tick, its second half: for time in .. { if time > now
\* { break }; spawn; self.last_run = time }, the closure recording each
\* firing; CronScheduler::tick goes to the next job
driver_for(d) ==
  /\ d \in DOMAIN ticking
  /\ ticking[d].pc = "for"
  /\ LET k == ticking[d].k
         r == ScheduledJob_tick([jobs[k] EXCEPT
                                   !.last_run = ticking[d].last_run], <<>>)
         id == jobs[k].job_id
     IN  DriverStep([ticking EXCEPT ![d].pc = "job", ![d].k = k + 1],
                    sched,
                    IF r.fired = <<>> THEN jobs
                    ELSE [jobs EXCEPT ![k] = r.job],
                    [fires EXCEPT ![id].at = @ \o r.fired,
                                  ![id].ticked = now])

\* CronScheduler::tick returns to driver d and the guard is dropped; the
\* driver awaits its interval again
driver_unlock(d) ==
  /\ d \in DOMAIN ticking
  /\ ticking[d].pc = "job"
  /\ ticking[d].k > Len(jobs)
  /\ DriverStep([e \in DOMAIN ticking \ {d} |-> ticking[e]],
                IF sched.uuid = d THEN Unlocked ELSE sched, jobs, fires)

\* the scheduler under the drivers that start_tick has started and never
\* stopped, while jobs are added (under the mutex) and the clock advances
NextDrivers ==
  \/ Advance
  \/ start_tick
  \/ \E expr \in Schedules : sched.who = "" /\ sched_add(expr)
  \/ \E d \in drivers : driver_lock(d)
  \/ \E d \in drivers : driver_after(d)
  \/ \E d \in drivers : driver_for(d)
  \/ \E d \in drivers : driver_unlock(d)

SpecDrivers == Init /\ [][NextDrivers]_vars

\* the turn of Task::activate or Task::deactivate (pc) the manager is at
\* calls the scheduler: CronTrigger::install of an expression that parses
\* (self.crond.lock().await.add(sched_job)), CronTrigger::uninstall of a
\* trigger that holds a job id (self.crond.lock().await.remove(uuid))
UsesCron(pc) ==
  /\ mgr.pc = pc
  /\ mgr.i <= Len(CurTask.triggers)
  /\ CurTask.triggers[mgr.i].kind = "Cron"
  /\ pc = "install" => Parses(CurTask.triggers[mgr.i].cron_expr)
  /\ pc = "uninstall" => CurTask.triggers[mgr.i].job_id # None

\* the turn of Task::activate with the scheduler mutex: the install waits
\* until the mutex is free, and its guard is dropped within the statement
install_locked == (UsesCron("install") => sched.who = "") /\ install

\* the turn of Task::deactivate with the scheduler mutex
uninstall_locked == (UsesCron("uninstall") => sched.who = "") /\ uninstall

\* the steps of the holder of the manager lock
ManagerStep ==
  \/ reload_remove
  \/ reload_drop
  \/ reload_upsert
  \/ add_insert
  \/ update_task
  \/ update_swap
  \/ update_triggers
  \/ update_replace
  \/ update_spec
  \/ activate
  \/ install_locked
  \/ push_install
  \/ deactivate
  \/ uninstall_locked
  \/ push_uninstall
  \/ export_task
  \/ export_return

\* the steps of the tick driver inside crond.lock().await.tick().await
TickStep == tick_job \/ tick_unlock

\* the reconcile inputs that hold at most one task, with a Cron or an
\* Immediate trigger
LockMaps ==
  {NoSpecs} \cup {[id \in {"A"} |-> spec] : spec \in {cron, immediate}}

\* the engine with its three kinds of mutex: the manager lock (mgr.pc), the
\* scheduler mutex (sched) and the context mutexes (in_run)
NextLocks ==
  \/ Advance
  \/ \E specs \in LockMaps : reload(specs)
  \/ export_begin
  \/ ManagerStep
  \/ cron_lock("tick", 0)
  \/ TickStep
  \/ \E c \in DOMAIN ctxs : run_begin(c)
  \/ \E c \in DOMAIN ctxs : run_end(c)

SpecLocks == Init /\ [][NextLocks]_vars

\* fair scheduling.  The runtime goes on polling every task that can run:
\* a body that runs returns and its firing drops the context mutex, and the
\* tick driver inside tick goes on to the end of it (weak fairness).  The
\* tokio mutexes are fair, they serve their waiters in the order of their
\* requests: the holder of the manager lock, who finds the mutex it needs
\* free again and again, gets it (strong fairness).  No call from outside
\* and no second of the clock has to come.
Fairness ==
  /\ SF_vars(ManagerStep)
  /\ WF_vars(TickStep)
  /\ \A c \in 1..MaxStimuli : WF_vars(c \in DOMAIN ctxs /\ run_end(c))

SpecFair == Init /\ [][NextLocks]_vars /\ Fairness

(* ------------------------------ controller ---------------------------- *)

\* the agent ids of the requests: a1 is in the database, a2 is not
AgentIds == {"a1", "a2"}

\* an AgentEventLog of one task with one event
SomeLog == [t \in {"T"} |-> <<Event("Run", 0, 0, Ok0)>>]

Request(variant, id, log) == [variant |-> variant, id |-> id, log |-> log]

\* Request (object.rs): AddTask, RemoveTask, ListTask, Reload, PullTask { id },
\* ReportStatus { id, log }
Requests ==
  {Request(v, "", NoSpecs) : v \in {"AddTask", "RemoveTask", "ListTask",
                                     "Reload"}}
    \cup {Request("PullTask", id, NoSpecs) : id \in AgentIds}
    \cup {Request("ReportStatus", "a1", SomeLog)}

\* what arrives on the connection: frames that decode to a request, a frame
\* that decode rejects (InvalidData) and a frame on which decode panics
CtlFrames ==
  Requests \cup {Request(v, "", NoSpecs) : v \in {"InvalidData", "panic"}}

\* Response::ok()
Response_ok == [variant |-> "Ok", data |-> <<>>]

\* Response::err(err)
Response_err(err) == [variant |-> "Error", data |-> err]

\* Response::object(obj): Object(bincode::serialize(obj)); the bytes are
\* stood for by the one value they deserialise to
Response_object(obj) == [variant |-> "Object", data |-> <<obj>>]

\* a handler that answers Ok to what it does not handle
handle_request_lenient(req, agents) ==
  CASE req.variant = "PullTask" ->
         IF req.id \in DOMAIN agents THEN Response_object(agents[req.id])
         ELSE Response_err("Agent not found")
    [] OTHER -> Response_ok

\* Server::handle_request, the response: PullTask looks the agent up,
\* ReportStatus answers Ok whatever persist_log returns, the rest are
\* unhandled
handle_request(req, agents) ==
  CASE req.variant = "PullTask" ->
         IF req.id \in DOMAIN agents THEN Response_object(agents[req.id])
         ELSE Response_err("Agent not found")
    [] req.variant = "ReportStatus" -> Response_ok
    [] OTHER -> Response_err("Unhandled request")

\* the controller's variable changes to c; nothing else does
CtlStep(c) ==
  /\ ctl' = c
  /\ UNCHANGED <<now, tasks, jobs, ctxs, mgr, nextJob, stimuli, exported,
                 hist, crond, drivers, fires, buf, sent, out, agent, files,
                 hosts, sched, ticking, rx>>

\* the agent at the other end writes a frame
ctl_send(frame) ==
  /\ ctl.pc \notin {"closed", "dead"}
  /\ ctl.decoded + Len(ctl.whole) + Len(ctl.net) < MaxFrames
  /\ CtlStep([ctl EXCEPT !.net = Append(@, frame)])

\* handle_agent: wfile.read_buf(&mut buf) returns n > 0: the bytes that
\* arrive complete the first k frames on their way and, if part, bring a
\* strict prefix of the one after them
ctl_read(k, part) ==
  /\ ctl.pc = "read"
  /\ k \in 0..Len(ctl.net)
  /\ part => k < Len(ctl.net)
  /\ k > 0 \/ (part /\ ~ctl.part)
  /\ CtlStep([ctl EXCEPT !.pc = "decode",
                         !.whole = @ \o SubSeq(ctl.net, 1, k),
                         !.net = SubSeq(ctl.net, k + 1, Len(ctl.net)),
                         !.part = part])

\* handle_agent: read_buf returns 0, the agent has closed: return Ok(())
ctl_eof ==
  /\ ctl.pc = "read"
  /\ ctl.net = <<>>
  /\ CtlStep([ctl EXCEPT !.pc = "closed"])

\* handle_agent: while buf.len() > HEADER_LEN { decode ... }: with no
\* complete frame in buf the loop ends or decode returns NotEnoughData, and
\* the next read follows; InvalidData returns Err; Ok(msg) is the request
ctl_decode ==
  /\ ctl.pc = "decode"
  /\ CtlStep(CASE ctl.whole = <<>> -> [ctl EXCEPT !.pc = "read"]
               [] ctl.whole # <<>> /\ Head(ctl.whole).variant = "InvalidData"
                    -> [ctl EXCEPT !.pc = "closed", !.whole = Tail(@)]
               [] ctl.whole # <<>> /\ Head(ctl.whole).variant = "panic"
                    -> [ctl EXCEPT !.pc = "dead", !.whole = Tail(@)]
               [] OTHER -> [ctl EXCEPT !.pc = "handle", !.whole = Tail(@),
                                       !.req = Head(ctl.whole),
                                       !.decoded = @ + 1])

\* handle_agent: resp = handle_request(req) (never Err); for ReportStatus
\* persist_log appends the log to the agent's files, or fails and is logged
ctl_handle(ok) ==
  /\ ctl.pc = "handle"
  /\ CtlStep([ctl EXCEPT
                !.pc = "write",
                !.resp = handle_request(ctl.req, ctl.agents),
                !.logs = IF ctl.req.variant = "ReportStatus" /\ ok
                         THEN Append(@, <<ctl.req.id, ctl.req.log>>)
                         ELSE @])

\* handle_agent: encode(&resp, &mut wbuf); write_all(&wbuf).await?;
\* flush().await?; a failed write returns Err
ctl_write(ok) ==
  /\ ctl.pc = "write"
  /\ CtlStep(IF ok
             THEN [ctl EXCEPT !.pc = "decode", !.req = NoRequest,
                     !.resp = NoPayload,
                     !.written = Append(@, [resp |-> ctl.resp,
                                            of |-> ctl.decoded])]
             ELSE [ctl EXCEPT !.pc = "closed"])

\* AgentDb::insert_agent_task, called by the web API while the connection is
\* served: agent.tasks.insert(Uuid::new_v4(), v)
insert_agent_task(k, v) ==
  /\ k \in DOMAIN ctl.agents
  /\ Cardinality(DOMAIN ctl.agents[k]) < MaxTasks
  /\ CtlStep([ctl EXCEPT !.agents[k] =
                (Cardinality(DOMAIN @) + 1 :> v) @@ @])

\* the controller serving one agent connection
NextServer ==
  \/ \E frame \in CtlFrames : ctl_send(frame)
  \/ \E k \in 0..MaxFrames, part \in BOOLEAN : ctl_read(k, part)
  \/ ctl_eof
  \/ ctl_decode
  \/ \E ok \in BOOLEAN : ctl_handle(ok)
  \/ \E ok \in BOOLEAN : ctl_write(ok)
  \/ insert_agent_task("a1", cron)

SpecServer == Init /\ [][NextServer]_vars

(* ------------------------------- hosts file --------------------------- *)

\* a string is the sequence of its characters
Whitespace == {" ", "\t", "\n", "\r"}

\* str::starts_with
starts_with(s, p) == Len(p) <= Len(s) /\ SubSeq(s, 1, Len(p)) = p

\* str::contains
contains(s, p) ==
  \E i \in 0..(Len(s) - Len(p)) : SubSeq(s, i + 1, i + Len(p)) = p

\* str::trim_start
RECURSIVE trim_start(_)
trim_start(s) ==
  IF s # <<>> /\ Head(s) \in Whitespace THEN trim_start(Tail(s)) ELSE s

\* the position of the first "\n" of s, 0 when there is none
NewlineAt(s) ==
  IF \E i \in DOMAIN s : s[i] = "\n"
  THEN CHOOSE i \in DOMAIN s : s[i] = "\n" /\ \A j \in 1..(i - 1) : s[j] # "\n"
  ELSE 0

\* a line without the "\r" that came before its "\n"
StripCr(l) ==
  IF l # <<>> /\ l[Len(l)] = "\r" THEN SubSeq(l, 1, Len(l) - 1) ELSE l

\* str::lines: the pieces between "\n" or "\r\n" terminators, no empty last
\* piece after a final terminator
RECURSIVE lines(_)
lines(s) ==
  IF s = <<>> THEN <<>>
  ELSE LET i == NewlineAt(s)
       IN  IF i = 0 THEN <<s>>
           ELSE <<StripCr(SubSeq(s, 1, i - 1))>>
                  \o lines(SubSeq(s, i + 1, Len(s)))

\* the length of the longest prefix of s without whitespace
RECURSIVE WordLen(_)
WordLen(s) ==
  IF s = <<>> \/ Head(s) \in Whitespace THEN 0 ELSE 1 + WordLen(Tail(s))

\* str::split_ascii_whitespace: the maximal runs without whitespace
RECURSIVE split_ascii_whitespace(_)
split_ascii_whitespace(s) ==
  LET t == trim_start(s)
      n == WordLen(t)
  IN  IF t = <<>> THEN <<>>
      ELSE <<SubSeq(t, 1, n)>>
             \o split_ascii_whitespace(SubSeq(t, n + 1, Len(t)))

\* " " and host pushed for every host of the list
RECURSIVE PushHosts(_)
PushHosts(hs) ==
  IF hs = <<>> THEN <<>> ELSE <<" ">> \o Head(hs) \o PushHosts(Tail(hs))

\* HostSpec { ip, hosts }
HostSpec(ip, hs) == [ip |-> ip, hosts |-> hs]

HostSpecs ==
  {HostSpec(ip, hs) : ip \in {<<"1">>, <<"2">>},
                      hs \in {<<<<"a">>>>, <<<<"a">>, <<"b">>>>}}

\* HostTask::run, the line pushed for a line of the file
HostLine(line, spec, line_ending) ==
  IF starts_with(trim_start(line), spec.ip)
  THEN LET origin == Tail(split_ascii_whitespace(line))
           keep_hosts ==
             SelectSeq(spec.hosts,
                       LAMBDA h : \E k \in DOMAIN origin : origin[k] = h)
       IN  spec.ip \o PushHosts(origin) \o PushHosts(keep_hosts)
             \o line_ending
  ELSE line \o line_ending

RECURSIVE HostLines(_, _, _)
HostLines(ls, spec, line_ending) ==
  IF ls = <<>> THEN <<>>
  ELSE HostLine(Head(ls), spec, line_ending)
         \o HostLines(Tail(ls), spec, line_ending)

\* HostTask::run, new_content: every line of the file, rewritten when it
\* starts with the ip, and a new entry when none did
new_content(content, spec) ==
  LET line_ending ==
        IF contains(content, <<"\r", "\n">>) THEN <<"\r", "\n">> ELSE <<"\n">>
      ls == lines(content)
      found ==
        \E k \in DOMAIN ls : starts_with(trim_start(ls[k]), spec.ip)
  IN  HostLines(ls, spec, line_ending)
        \o (IF found THEN <<>>
            ELSE spec.ip \o PushHosts(spec.hosts) \o line_ending)

\* the lines of a well-formed hosts file: an address and one or two names,
\* one space between them
WellFormedLines ==
  {<<"1", " ", "a">>, <<"1", " ", "b">>, <<"2", " ", "a", " ", "b">>,
   <<"3", " ", "c">>}

RECURSIVE Join(_, _)
Join(ls, line_ending) ==
  IF ls = <<>> THEN <<>>
  ELSE Head(ls) \o line_ending \o Join(Tail(ls), line_ending)

\* the well-formed hosts files: every line ends with the file's one line
\* ending and no two lines have the same address
WellFormed ==
  {Join(ls, le) :
     ls \in {l \in UNION {[1..n -> WellFormedLines] : n \in 0..MaxLines} :
               \A i, j \in DOMAIN l : i # j => l[i][1] # l[j][1]},
     le \in {<<"\n">>, <<"\r", "\n">>}}

\* the hosts variable changes to h; nothing else does
HostsStep(h) ==
  /\ hosts' = h
  /\ UNCHANGED <<now, tasks, jobs, ctxs, mgr, nextJob, stimuli, exported,
                 hist, crond, drivers, fires, buf, sent, out, agent, files,
                 ctl, sched, ticking, rx>>

\* the hosts file the machine has before the body first runs
hosts_file(content) ==
  /\ hosts.runs = 0
  /\ hosts.content = <<>>
  /\ content # <<>>
  /\ HostsStep([hosts EXCEPT !.content = content])

\* HostTask::run: the file is opened for reading and writing and
\* read_to_string reads it to its end, which is where write_all then writes
\* new_content: nothing seeks back and nothing truncates
HostTask_run(spec) ==
  /\ hosts.runs < MaxRuns
  /\ HostsStep([content |-> hosts.content \o new_content(hosts.content, spec),
                runs |-> hosts.runs + 1,
                spec |-> spec,
                before |-> hosts.content,
                again |-> hosts.runs > 0 /\ spec = hosts.spec])

NextHosts ==
  \/ \E content \in WellFormed : hosts_file(content)
  \/ \E spec \in HostSpecs : HostTask_run(spec)

SpecHosts == Init /\ [][NextHosts]_vars

(* -------------------------------- claims ------------------------------ *)

\* the manager lock is free and the last call was a reload: the state a
\* reload returns in, until the next call
AfterReload == mgr.pc = "idle" /\ hist.op = "reload"

\* the ids of the jobs the scheduler holds
JobIds == {jobs[k].job_id : k \in DOMAIN jobs}

\* the job handles the Cron triggers of Task t hold
Handles(t) ==
  {t.triggers[k].job_id : k \in {n \in DOMAIN t.triggers :
      t.triggers[n].kind = "Cron" /\ t.triggers[n].job_id # None}}

\* the positions of the Run events in a buffer
Runs(h) == {k \in DOMAIN h : h[k].type_ = "Run"}

\* C1: at-most-one-concurrent-run.  For every execution context, at most one
\* run of the body is in progress at any time; the Run events of its buffer
\* are ordered, each ending no later than the next one starts; and a run in
\* progress started no earlier than every recorded run ended.
C1_AtMostOneRun ==
  \A c \in DOMAIN ctxs :
    LET h == ctxs[c].run_history
    IN  /\ Len(ctxs[c].in_run) <= 1
        /\ \A i, j \in Runs(h) : i < j => h[i].end <= h[j].start
        /\ \A i \in Runs(h) : h[i].start <= h[i].end
        /\ \A i \in Runs(h), k \in DOMAIN ctxs[c].in_run :
             h[i].end <= ctxs[c].in_run[k]

\* C1 witness: two firings of one task overlapped in waiting and both ran:
\* the buffer holds two Run events, and the clock moved meanwhile
C1_Witness ==
  \E c \in DOMAIN ctxs :
    LET h == ctxs[c].run_history
    IN  \E i, j \in Runs(h) : i < j /\ h[i].start < h[j].end

\* C2: reconcile idempotence.  When reload is called with the input of the
\* reload before it, it leaves the task map (instances, specs, states) and
\* the scheduler's job count as they were after that first call.
C2_ReloadIdempotent ==
  (AfterReload /\ hist.again) =>
     /\ TaskMapView = hist.view
     /\ Len(jobs) = hist.njobs

\* C3: no orphaned jobs.  Between manager calls the scheduler's jobs are
\* exactly the handles held by the Cron triggers of the Activated tasks of
\* the map.
C3_NoOrphanedJobs ==
  mgr.pc = "idle" =>
    JobIds = UNION {Handles(tasks[id]) :
                      id \in {x \in DOMAIN tasks : is_activated(tasks[x])}}

\* C4: state/registration invariant.  Between manager calls, every Cron
\* trigger of an Activated task holds the handle of a job of the scheduler,
\* and no trigger of a Deactivated task does.
C4_StateRegistration ==
  mgr.pc = "idle" =>
    \A id \in DOMAIN tasks :
      LET t == tasks[id]
      IN  /\ is_activated(t) =>
               \A k \in DOMAIN t.triggers :
                 t.triggers[k].kind = "Cron" =>
                   /\ t.triggers[k].job_id # None
                   /\ t.triggers[k].job_id \in JobIds
          /\ ~is_activated(t) => Handles(t) \cap JobIds = {}

\* C5: reconcile diff (keys).  When a reload returns, the keys of the task
\* map are the keys of its input and every task stores the input's spec.
C5_ReconcileKeys ==
  AfterReload =>
    /\ DOMAIN tasks = DOMAIN hist.specs
    /\ \A id \in DOMAIN tasks : tasks[id].spec = hist.specs[id]

\* C5 witness: a second reload has removed A, which the first had added
\* together with B, and has given B another spec
C5_Witness ==
  /\ AfterReload
  /\ Len(ctxs) = 2
  /\ DOMAIN tasks = {"B"}
  /\ tasks["B"].spec = immediate

\* the reload in progress was given, for id, the spec the Activated task of
\* that id already stores
Unchanged(id) ==
  /\ mgr.pc \notin {"idle", "export"}
  /\ id \in DOMAIN tasks
  /\ id \in DOMAIN hist.specs
  /\ tasks[id].spec = hist.specs[id]
  /\ is_activated(tasks[id])

\* C6: unchanged tasks are not torn down.  No step of a reload touches an
\* Activated task whose stored spec equals the input's: the Task (instance,
\* context, trigger handles, state) stays as it is, the scheduler's jobs stay
\* as they are, no firing is spawned and no event is appended.
C6_UnchangedUntouched ==
  [][\A id \in DOMAIN tasks :
       (Unchanged(id) /\ mgr' # mgr) =>
          LET c == tasks[id].context
          IN  /\ id \in DOMAIN tasks'
              /\ tasks'[id] = tasks[id]
              /\ jobs' = jobs
              /\ ctxs'[c] = ctxs[c]]_vars

\* C6 witness: a reload given the same input again is about to activate the
\* task it updated, which is Activated and stores the input's spec
C6_Witness ==
  /\ hist.again
  /\ mgr.pc = "activate"
  /\ Unchanged(mgr.id)

\* C7: reconcile removes a task.  When a reload returns, every id its input
\* lacks is out of the map, and the scheduler holds no job of a removed
\* task, i.e. every job fires the context of a task of the map.
C7_RemovedTaskHasNoJobs ==
  AfterReload =>
    /\ \A id \in DOMAIN tasks : id \in DOMAIN hist.specs
    /\ \A k \in DOMAIN jobs :
         \E id \in DOMAIN tasks : tasks[id].context = jobs[k].ctx

\* C8: a bad cron expression is isolated.  When a reload returns, a task
\* whose trigger is a Cron expression that does not parse is in the map,
\* Deactivated, with a TriggerInstall event carrying InvalidCronExpresion in
\* its buffer and no job of the scheduler firing it; every task of the input
\* whose triggers all install is Activated.
C8_BadCronIsolated ==
  AfterReload =>
    \A id \in DOMAIN hist.specs :
      /\ id \in DOMAIN tasks
      /\ hist.specs[id] = bad =>
           LET c == tasks[id].context
               h == ctxs[c].run_history
           IN  /\ ~is_activated(tasks[id])
               /\ \E k \in DOMAIN h :
                    /\ h[k].type_ = "TriggerInstall"
                    /\ h[k].result = InvalidCronExpresion
               /\ \A k \in DOMAIN jobs : jobs[k].ctx # c
      /\ (\A k \in DOMAIN hist.specs[id].triggers :
            LET trig == hist.specs[id].triggers[k]
            IN  trig.kind = "Cron" => Parses(trig.expr))
           => is_activated(tasks[id])

\* the export step of the task with this id
ExportsTask(id) ==
  /\ mgr.pc = "export"
  /\ id \in mgr.todo
  /\ mgr'.pc = "export"
  /\ id \notin mgr'.todo

\* C9: the event buffer is a FIFO drained on export.  The export of a task
\* returns the events of its buffer in append order and leaves the buffer
\* empty, so that an export right after it returns the empty sequence.
C9_ExportDrainsFIFO ==
  [][\A id \in DOMAIN tasks :
       ExportsTask(id) =>
          LET c == tasks[id].context
          IN  /\ mgr'.res[id] = ctxs[c].run_history
              /\ ctxs'[c].run_history = <<>>
              /\ export_log(ctxs'[c].run_history) = <<>>]_vars

\* C9 witness: an export returned two events of different kinds
C9_Witness ==
  \E id \in DOMAIN exported :
    /\ Len(exported[id]) >= 2
    /\ exported[id][1].type_ # exported[id][2].type_
    /\ ctxs[tasks[id].context].run_history = <<>>

\* C10: per-task event order.  In every buffer the events appear in the
\* order of their start instants.
C10_EventsInStartOrder ==
  \A c \in DOMAIN ctxs :
    LET h == ctxs[c].run_history
    IN  \A i, j \in DOMAIN h : i < j => h[i].start <= h[j].start

\* C11: an Immediate trigger fires exactly once per install.  A task whose
\* only trigger is Immediate, once activated, has exactly one TriggerInstall
\* event in its buffer and exactly one firing, which is waiting, running or
\* recorded as the one Run event; it holds no job.  This stays so however
\* often activate is called again while the task is Activated.
C11_ImmediateFiresOnce ==
  \A id \in DOMAIN tasks :
    LET t == tasks[id]
        x == ctxs[t.context]
    IN  (is_activated(t) /\ t.spec = immediate) =>
          /\ CountType(x.run_history, "TriggerInstall") = 1
          /\ x.spawned + Len(x.in_run) + CountType(x.run_history, "Run") = 1
          /\ jobs = <<>>

\* C11 witness: activate was called again on the Activated task (a reload
\* with the same input returned) and the one run is recorded
C11_Witness ==
  /\ AfterReload
  /\ hist.again
  /\ "A" \in DOMAIN tasks
  /\ is_activated(tasks["A"])
  /\ tasks["A"].spec = immediate
  /\ CountType(ctxs[tasks["A"].context].run_history, "Run") = 1

\* the instants of a schedule in (from, to]
Instants(expr, from, to) == {t \in (from + 1)..to : Matches(expr, t)}

\* C12: scheduler tick catch-up.  For every registered job, the instants
\* fired so far are, in increasing order and each once, exactly the
\* scheduled instants after its creation and up to its latest tick, and
\* last_run is the last of them (the creation time when there is none): a
\* tick at time now fires exactly the scheduled instants in (last_run, now],
\* never one twice and skipping none, however late it comes.
C12_TickCatchUp ==
  \A k \in DOMAIN jobs :
    LET job == jobs[k]
        f == fires[job.job_id]
    IN  /\ \A i, j \in DOMAIN f.at : i < j => f.at[i] < f.at[j]
        /\ {f.at[i] : i \in DOMAIN f.at}
             = Instants(job.schedule, f.created, f.ticked)
        /\ job.last_run = IF f.at = <<>> THEN f.created
                          ELSE f.at[Len(f.at)]

\* C12 witness: a tick at second 3 has served an every-second job, three
\* instants fired, and an every-other-second job created at second 0, whose
\* one instant is second 2
C12_Witness ==
  \E k, n \in DOMAIN jobs :
    LET f == fires[jobs[k].job_id]
        g == fires[jobs[n].job_id]
    IN  /\ jobs[k].schedule = "0/2 * * * * *"
        /\ f.created = 0
        /\ f.ticked = 3
        /\ f.at = <<2>>
        /\ jobs[n].schedule = "0/1 * * * * *"
        /\ Len(g.at) = 3

\* C13: stop_tick stops ticking.  While no handle is stored (stop_tick has
\* returned and start_tick was not called since, or never), no step executes
\* the scheduler's tick().
C13_StopStopsTicking ==
  [][crond = None => ~(\E d \in drivers : tick_driver(d))]_vars

\* a step that is a decode call: the only steps that change out or shorten
\* the buffer; out' holds the call's key and the item it found in front
DecodeStep == out' # out \/ Len(buf') < Len(buf)

\* C14: codec round-trip.  Decoding a frame that encode produced, with the
\* key it was encoded with, returns the payload and consumes exactly the
\* frame; and two encodes of the same payload under the same key whose
\* nonces differ produce different frames (each of which decodes so).
C14_RoundTrip ==
  [][/\ (DecodeStep /\ out'.of.kind = "frame" /\ out'.of.key = out'.key)
          => /\ out'.res = "Ok"
             /\ out'.msg = out'.of.payload
             /\ out'.consumed = Len(ItemBytes(out'.of))
             /\ buf' = Slice(buf, out'.consumed, Len(buf))
     /\ \A t \in Payloads, key \in Keys, n1, n2 \in Nonces :
          n1 # n2 => Encoded[t, key, n1] # Encoded[t, key, n2]
    ]_vars

\* C14 witness: the first of two encodes of Error("e") under one key was
\* decoded; the second, with another nonce, is still in the buffer
C14_Witness ==
  /\ out.res = "Ok"
  /\ out.of.kind = "frame"
  /\ out.msg = [variant |-> "Error", data |-> <<101>>]
  /\ Len(sent) = 1
  /\ sent[1].kind = "frame"
  /\ sent[1].payload = out.msg
  /\ sent[1].key = out.key
  /\ sent[1].nonce # out.nonce

\* C15: codec framing.  A decode call on a buffer of concatenated frames
\* returns the payload of the first and consumes exactly that frame, leaving
\* the rest; on a buffer that holds only a strict prefix of a frame it
\* returns NotEnoughData and consumes nothing.
C15_Framing ==
  [][DecodeStep =>
       /\ (out'.of.kind = "frame" /\ out'.of.key = out'.key) =>
             /\ out'.res = "Ok"
             /\ out'.msg = out'.of.payload
             /\ buf' = Slice(buf, Len(ItemBytes(out'.of)), Len(buf))
       /\ out'.of.kind = "part" =>
             /\ out'.res = "NotEnoughData"
             /\ buf' = buf
    ]_vars

\* C16: codec authentication.  A decode call with a key other than the key
\* the frame was encoded with returns InvalidData and no message.
C16_Authentication ==
  (out.of.kind = "frame" /\ out.of.key # out.key) =>
     /\ out.res = "InvalidData"
     /\ out.msg = NoPayload

\* C16 witness: a frame encoded under one key was decoded under the other
C16_Witness ==
  /\ out.of.kind = "frame"
  /\ out.of.key # out.key
  /\ out.consumed = Len(ItemBytes(out.of))

\* C17: decode error contract.  A decode call on a complete frame that has
\* a wrong MAGIC, fails authentication, does not decompress or does not
\* deserialise returns InvalidData; no decode call on a complete frame
\* panics.
C17_DecodeErrors ==
  /\ (\/ out.of.kind \in {"badmagic", "notzlib", "notbincode"}
      \/ out.of.kind = "frame" /\ out.of.key # out.key)
       => out.res = "InvalidData"
  /\ out.of.kind \in {"frame", "badmagic", "notzlib", "notbincode"}
       => out.res # "panic"

\* C18: pull and report loops never exit.  Whatever fails inside a turn of
\* the pull loop or of the report loop, the loop is then waiting for its
\* next tick.
C18_LoopsNeverExit ==
  /\ agent.pull_err # "" => agent.pull = "tick"
  /\ agent.report_err # "" => agent.report = "tick"

\* C19: task cache round-trip.  When a pull hands a spec set to reload, the
\* task cache the startup reads holds that set; and a process started after
\* a pull has received and saved a spec set, as long as none of its own
\* pulls has, has reloaded exactly the last pulled spec set.
C19_CacheRoundTrip ==
  /\ agent.pull = "reload" =>
       /\ load(agent.task_file).ok
       /\ <<load(agent.task_file).specs>> = agent.msg
  /\ (agent.main = "started" /\ ~agent.pulled /\ agent.last_pulled # <<>>)
       => agent.reloaded = agent.last_pulled

\* C20: the report loop waits first.  Whenever the report loop is inside a
\* call of report() (connecting, setting the socket option, draining the
\* buffers, writing the ReportStatus, reading the answer), a wait on its
\* interval ticker has completed in this turn of the loop, after the report
\* before; so nothing is drained or sent before the first wait has completed.
C20_ReportWaitsFirst ==
  agent.report \in {"connect", "nodelay", "export", "send", "recv"}
    => agent.waited /\ agent.report_ticks > 0

\* C20 witness: the second ReportStatus has been written, the second wait
\* having completed a report interval after the loop started
C20_Witness ==
  /\ agent.report = "recv"
  /\ agent.report_ticks = 2
  /\ now = agent.created + report_interval

\* C21: no resend of drained events.  No event is written to the controller
\* in more than one ReportStatus, and no event of a request that was dropped
\* unwritten (the report failed at encode or write) is ever written; an
\* event drained for a report is in no buffer any more.
C21_NoResend ==
  /\ agent.twice = {}
  /\ agent.unsent \cap agent.wire = {}
  /\ \A c \in DOMAIN ctxs :
       \A k \in DOMAIN ctxs[c].run_history :
         ctxs[c].run_history[k].id
           \notin agent.wire \cup agent.unsent \cup IdsOf(agent.log)

\* C21 witness: a report failed before its request was written, a later one
\* was written and then failed on the answer, and a third is written
C21_Witness ==
  /\ agent.unsent # {}
  /\ agent.report = "recv"
  /\ agent.report_ticks = 3
  /\ Cardinality(agent.wire) >= 2

\* C28, as stated: report drains before connecting.  Whenever a report is
\* opening its connection or has opened it, export_log has returned in this
\* turn of the loop, so that a turn whose connection attempt fails has
\* drained the buffers.
C28_DrainsBeforeConnect ==
  (agent.report \in {"connect", "nodelay"} \/ agent.connected)
    => agent.drained

\* C28, amended: report connects before draining.  export_log is called, and
\* has returned, only in a turn whose connection is open; a turn whose
\* connection attempt fails, or whose socket option fails, has drained
\* nothing and leaves every buffer as it was.
C28_ConnectsBeforeDrain ==
  [][/\ agent'.drained => agent'.connected
     /\ mgr'.pc = "export" => agent'.connected
     /\ (agent.report \in {"connect", "nodelay"}
          /\ agent'.report \in {"tick", "dead"})
           => /\ ctxs' = ctxs
              /\ ~agent.drained]_vars

\* C28 witness: over an open connection a report has drained a buffer that
\* held events, after an earlier turn failed with events in the buffer
C28_Witness ==
  /\ agent.drained
  /\ agent.connected
  /\ agent.report = "send"
  /\ agent.report_ticks = 2
  /\ Cardinality(IdsOf(agent.log)) >= 2

\* C30: a failed pull changes nothing.  In a turn of the pull loop in which
\* pull returned Err (connect, write, read, frame decode, response kind or
\* payload deserialisation failed), reload was not called, the task cache
\* and every other file are as the turn found them, and no step of a pull
\* up to the look at the response touches the task map, the scheduler's
\* jobs or the contexts or calls reload.
C30_FailedPullChangesNothing ==
  [][/\ agent'.pull_err = "Err" =>
          /\ ~agent'.pull_called
          /\ files' = agent'.pull_files
     /\ (agent'.pull \notin {agent.pull, ""}
          /\ agent.pull \in {"connect", "nodelay", "send", "recv", "response"})
           => /\ tasks' = tasks
              /\ jobs' = jobs
              /\ ctxs' = ctxs
              /\ agent'.reloaded = agent.reloaded]_vars

\* C30 witness: after a pull saved and reloaded a spec set, a later turn
\* failed and is waiting for its tick
C30_Witness ==
  /\ agent.pull_err = "Err"
  /\ agent.pull = "tick"
  /\ agent.pulled
  /\ agent.pull_ticks = 1
  /\ "tasks.json" \in DOMAIN files

\* C22: controller request handling.  On a connection the responses written
\* answer the requests decoded, one each and in their order: a request is
\* answered before the next is decoded, unless the write fails, which ends
\* the connection.  PullTask for an agent of the database is answered
\* Object(the agent's task map as it then is), ReportStatus is answered Ok,
\* and AddTask, RemoveTask, ListTask and Reload are answered
\* Error("Unhandled request") and leave the database and the logs alone.
C22_RequestHandling ==
  [][/\ \A i \in DOMAIN ctl'.written : ctl'.written[i].of = i
     /\ Len(ctl'.written) =
          IF ctl'.pc \in {"handle", "write"}
             \/ (ctl'.pc = "closed" /\ ctl'.req # NoRequest)
          THEN ctl'.decoded - 1 ELSE ctl'.decoded
     /\ (ctl.pc = "handle" /\ ctl'.pc = "write") =>
          /\ (ctl.req.variant = "PullTask" /\ ctl.req.id \in DOMAIN ctl.agents)
               => ctl'.resp = [variant |-> "Object",
                               data |-> <<ctl.agents[ctl.req.id]>>]
          /\ ctl.req.variant = "ReportStatus"
               => ctl'.resp = [variant |-> "Ok", data |-> <<>>]
          /\ ctl.req.variant \in {"AddTask", "RemoveTask", "ListTask", "Reload"}
               => /\ ctl'.resp = [variant |-> "Error",
                                  data |-> "Unhandled request"]
                  /\ ctl'.agents = ctl.agents
                  /\ ctl'.logs = ctl.logs
     /\ (ctl.pc = "write" /\ ctl'.pc = "decode") =>
          ctl'.written = Append(ctl.written, [resp |-> ctl.resp,
                                              of |-> ctl.decoded])
    ]_vars

\* C22 witness: two requests that arrived in one read were answered in
\* order, a PullTask with the task the web API had inserted and a Reload
C22_Witness ==
  /\ Len(ctl.written) = 2
  /\ ctl.written[1].resp = [variant |-> "Object",
                            data |-> <<[t \in {1} |-> cron]>>]
  /\ ctl.written[2].resp = [variant |-> "Error", data |-> "Unhandled request"]
  /\ ctl.pc = "decode"

\* C23: hosts idempotence.  When the Hosts body has run with a HostSpec on a
\* well-formed file and runs again with the same HostSpec, the file after
\* the second run is byte for byte the file after the first.
C23_HostsIdempotent ==
  (hosts.runs >= 2 /\ hosts.again) => hosts.content = hosts.before

\* the ids of the jobs of a job list
JobIdsOf(js) == {js[k].job_id : k \in DOMAIN js}

\* every Cron trigger of the list has an expression that parses
AllParse(trigs) ==
  \A k \in DOMAIN trigs : trigs[k].kind = "Cron" => Parses(trigs[k].expr)

\* the step with which Task::update returns to reload
UpdateReturns ==
  /\ mgr.ret = "upsert"
  /\ mgr.pc \in {"activate", "install", "push_install"}
  /\ mgr'.pc = "upsert"

\* C24: update reconfigures in place.  When update(new_spec) was called on
\* an Activated task and every trigger of new_spec installs, it returns with
\* the same Task Activated and its spec equal to new_spec.  When the trigger
\* sequence changed, no job of the old triggers is left in the scheduler,
\* every Cron trigger of new_spec holds a job of its own that is registered
\* once with its expression and the task's context, and the scheduler holds
\* what it held before without the old triggers' jobs and with the new ones.
\* When body and triggers both changed, the buffer has gained one
\* TriggerInstall event per old trigger (one uninstall each, the second
\* deactivate adding none) and one per new trigger.
C24_UpdateInPlace ==
  [][(UpdateReturns /\ is_activated(mgr.old.task)
        /\ AllParse(mgr.spec.triggers)) =>
       LET old == mgr.old
           new == mgr.spec
           t == tasks'[mgr.id]
           crons == {k \in DOMAIN t.triggers : t.triggers[k].kind = "Cron"}
       IN  /\ is_activated(t)
           /\ t.spec = new
           /\ t.context = old.task.context
           /\ old.task.spec.triggers # new.triggers =>
                /\ JobIdsOf(jobs') \cap Handles(old.task) = {}
                /\ Len(t.triggers) = Len(new.triggers)
                /\ \A k \in crons :
                     /\ new.triggers[k].kind = "Cron"
                     /\ \E n \in DOMAIN jobs' :
                          /\ jobs'[n].job_id = t.triggers[k].job_id
                          /\ jobs'[n].schedule = new.triggers[k].expr
                          /\ jobs'[n].ctx = t.context
                          /\ \A m \in DOMAIN jobs' :
                               jobs'[m].job_id = jobs'[n].job_id => m = n
                     /\ \A n \in crons :
                          n # k => t.triggers[n].job_id # t.triggers[k].job_id
                /\ Cardinality(crons) =
                     Cardinality({k \in DOMAIN new.triggers :
                                    new.triggers[k].kind = "Cron"})
                /\ JobIdsOf(jobs') =
                     (old.jobs \ Handles(old.task)) \cup Handles(t)
           /\ (old.task.spec.task # new.task
                 /\ old.task.spec.triggers # new.triggers) =>
                CountType(ctxs'[t.context].run_history, "TriggerInstall") =
                  old.installs
                    + Len(old.task.triggers) + Len(new.triggers)
    ]_vars

\* C24 witness: an update of the Activated task of spec cron to spec startup
\* has returned: the old job is gone and the new Cron trigger's job is the
\* only one
C24_Witness ==
  /\ mgr.pc = "upsert"
  /\ mgr.ret = "upsert"
  /\ is_activated(mgr.old.task)
  /\ mgr.old.task.spec = cron
  /\ mgr.spec = startup
  /\ is_activated(tasks[mgr.id])
  /\ mgr.old.jobs = {1}
  /\ JobIds = {2}

\* the Task the manager operation works on, after the step
CurTaskAfter == IF mgr'.local THEN mgr'.task ELSE tasks'[mgr'.id]

\* the TriggerInstall events the task's buffer held when the activate in
\* progress began: none for a new task; for an update, those it was entered
\* with and one per trigger its deactivate uninstalled
InstallsBefore ==
  IF mgr.local THEN 0
  ELSE mgr.old.installs
         + (IF is_activated(mgr.old.task) THEN Len(mgr.old.task.triggers)
            ELSE 0)

\* C25: partial activation.  activate starts at the first trigger and goes
\* on to the next one only after an install that succeeded.  When the
\* install of trigger i fails, its event is appended, the buffer then holds
\* one TriggerInstall event per trigger attempted by this activate (i of
\* them, the last with the error), activate returns with the state
\* Deactivated, the Cron triggers before i hold jobs that stay registered,
\* and the triggers after i hold none.  An activate that comes to a Cron
\* trigger which holds a job from such an earlier attempt registers a
\* further job for it and leaves the earlier one registered.
C25_PartialActivation ==
  [][LET t == CurTask
         i == mgr.i
     IN  /\ (mgr.pc = "activate" /\ ~is_activated(t) /\ mgr' # mgr) =>
              mgr'.pc = "install" /\ mgr'.i = 1
         /\ (mgr.pc = "push_install" /\ mgr.ev.result = Ok0 /\ mgr' # mgr) =>
              mgr'.pc = "install" /\ mgr'.i = i + 1
         /\ (mgr.pc = "install" /\ i <= Len(t.triggers) /\ mgr' # mgr) =>
              /\ mgr'.pc = "push_install"
              /\ mgr'.i = i
              /\ mgr'.ev.type_ = "TriggerInstall"
              /\ (t.triggers[i].kind = "Cron" /\ t.triggers[i].job_id # None)
                   => /\ Len(jobs') = Len(jobs) + 1
                      /\ t.triggers[i].job_id \in JobIds
                      /\ t.triggers[i].job_id \in JobIdsOf(jobs')
                      /\ CurTaskAfter.triggers[i].job_id \in
                           JobIdsOf(jobs') \ JobIds
         /\ (mgr.pc = "push_install" /\ mgr.ev.result # Ok0 /\ mgr' # mgr) =>
              LET h == ctxs'[t.context].run_history
              IN  /\ mgr'.pc = mgr.ret
                  /\ CurTaskAfter.state = "Deactivated"
                  /\ jobs' = jobs
                  /\ h[Len(h)].type_ = "TriggerInstall"
                  /\ h[Len(h)].result = InvalidCronExpresion
                  /\ CountType(h, "TriggerInstall") = InstallsBefore + i
                  /\ \A k \in 1..(i - 1) :
                       t.triggers[k].kind = "Cron" =>
                         t.triggers[k].job_id \in JobIdsOf(jobs')
                  /\ \A k \in (i + 1)..Len(t.triggers) :
                       t.triggers[k].job_id = None
    ]_vars

\* C25 witness: the task of spec partial has failed to activate twice: it is
\* Deactivated, its first trigger is registered twice and its buffer holds
\* two events per attempt, the last with the error
C25_Witness ==
  /\ mgr.pc = "upsert"
  /\ mgr.ret = "upsert"
  /\ "A" \in DOMAIN tasks
  /\ tasks["A"].spec = partial
  /\ tasks["A"].state = "Deactivated"
  /\ Len(jobs) = 2
  /\ tasks["A"].triggers[1].job_id = 2
  /\ LET h == ctxs[tasks["A"].context].run_history
     IN  /\ CountType(h, "TriggerInstall") = 4
         /\ h[Len(h)].result = InvalidCronExpresion

\* C26: deactivate.  On a Deactivated task deactivate returns at once and
\* changes neither the Task, the scheduler nor any buffer.  On an Activated
\* task it goes through the triggers in order: each turn removes the
\* trigger's job from the scheduler, clears its handle and appends exactly
\* one event, of kind TriggerInstall with result Ok(status 0); after the last
\* trigger the state is Deactivated and the buffer has gained one
\* TriggerInstall event per trigger.  No buffer, and no event about to be
\* appended, ever has kind Deactivate.
C26_Deactivate ==
  [][LET t == CurTask
         i == mgr.i
     IN  /\ \A c \in DOMAIN ctxs' :
              \A k \in DOMAIN ctxs'[c].run_history :
                ctxs'[c].run_history[k].type_ \in {"TriggerInstall", "Run"}
         /\ mgr'.ev.type_ # "Deactivate"
         /\ (mgr.pc = "deactivate" /\ ~is_activated(t) /\ mgr' # mgr) =>
              /\ mgr' = [mgr EXCEPT !.pc = mgr.ret]
              /\ tasks' = tasks
              /\ jobs' = jobs
              /\ ctxs' = ctxs
         /\ (mgr.pc = "deactivate" /\ is_activated(t) /\ mgr' # mgr) =>
              mgr'.pc = "uninstall" /\ mgr'.i = 1 /\ ctxs' = ctxs
         /\ (mgr.pc = "uninstall" /\ i <= Len(t.triggers) /\ mgr' # mgr) =>
              /\ mgr'.pc = "push_uninstall"
              /\ mgr'.i = i
              /\ mgr'.ev.type_ = "TriggerInstall"
              /\ mgr'.ev.result = Ok0
              /\ CurTaskAfter.triggers[i].job_id = None
              /\ CurTaskAfter.state = "Activated"
              /\ t.triggers[i].job_id # None =>
                   JobIdsOf(jobs') = JobIds \ {t.triggers[i].job_id}
         /\ (mgr.pc = "push_uninstall" /\ mgr' # mgr) =>
              LET h == ctxs[t.context].run_history
                  h2 == ctxs'[t.context].run_history
              IN  /\ Len(h2) = Len(h) + 1
                  /\ SubSeq(h2, 1, Len(h)) = h
                  /\ h2[Len(h2)].type_ = "TriggerInstall"
                  /\ h2[Len(h2)].result = Ok0
                  /\ mgr'.pc = "uninstall"
                  /\ mgr'.i = i + 1
         /\ (mgr.pc = "uninstall" /\ i > Len(t.triggers) /\ mgr' # mgr) =>
              /\ mgr'.pc = mgr.ret
              /\ CurTaskAfter.state = "Deactivated"
              /\ Handles(CurTaskAfter) = {}
              /\ JobIdsOf(jobs') \cap Handles(mgr.old.task) = {}
              /\ CountType(ctxs'[t.context].run_history, "TriggerInstall") =
                   mgr.old.installs
                     + Len(t.triggers)
    ]_vars

\* C26 witness: the Activated task of spec startup, removed by a reload, has
\* been deactivated: its job is gone and its buffer holds four TriggerInstall
\* events, two from activate and two from deactivate, all with Ok(status 0)
C26_Witness ==
  /\ mgr.pc = "drop"
  /\ mgr.task.spec = startup
  /\ mgr.task.state = "Deactivated"
  /\ is_activated(mgr.old.task)
  /\ mgr.old.jobs = {1}
  /\ jobs = <<>>
  /\ LET h == ctxs[mgr.task.context].run_history
     IN  /\ CountType(h, "TriggerInstall") = 4
         /\ \A k \in DOMAIN h :
              h[k].type_ = "TriggerInstall" => h[k].result = Ok0

\* C29: one Run event per firing, no retries.  A firing that gets the
\* context starts one run of the body and appends nothing yet; when the body
\* returns, exactly one event is appended to the buffer, a Run event with the
\* stamp the run began at and the body's result, Ok or Err; that step queues
\* no further firing and changes neither the task map, the scheduler's jobs
\* nor the manager's operation, whatever the result and whatever on_error.
\* (A context that nothing refers to any more once the run has ended is
\* freed with its buffer.)  No other step starts or ends a run or appends a
\* Run event.
C29_OneRunPerFiring ==
  [][\A c \in DOMAIN ctxs :
       LET x == ctxs[c]
           y == ctxs'[c]
       IN  /\ Len(y.in_run) > Len(x.in_run) =>
                /\ y.spawned = x.spawned - 1
                /\ y.in_run = Append(x.in_run, now)
                /\ y.run_history = x.run_history
           /\ Len(y.in_run) < Len(x.in_run) =>
                /\ y.in_run = Tail(x.in_run)
                /\ y.spawned = x.spawned
                /\ \/ /\ y = Dropped
                      /\ ~Referenced(ctxs', c, tasks', mgr', jobs')
                   \/ /\ Len(y.run_history) = Len(x.run_history) + 1
                      /\ SubSeq(y.run_history, 1, Len(x.run_history))
                           = x.run_history
                      /\ LET ev == y.run_history[Len(y.run_history)]
                         IN  /\ ev.type_ = "Run"
                             /\ ev.start = Head(x.in_run)
                             /\ ev.result = BodyResult(x.task)
                /\ tasks' = tasks
                /\ jobs' = jobs
                /\ mgr' = mgr
           /\ CountType(y.run_history, "Run") > CountType(x.run_history, "Run")
                => Len(y.in_run) < Len(x.in_run)
    ]_vars

\* C29 witness: the one firing of the Activated task with the failing body
\* and on_error Retry has run: its buffer holds one Run event, with the
\* error, and no firing is queued or running
C29_Witness ==
  /\ mgr.pc = "idle"
  /\ "A" \in DOMAIN tasks
  /\ tasks["A"].spec = retry
  /\ is_activated(tasks["A"])
  /\ LET x == ctxs[tasks["A"].context]
     IN  /\ x.spawned = 0
         /\ x.in_run = <<>>
         /\ CountType(x.run_history, "Run") = 1
         /\ \E k \in DOMAIN x.run_history :
              /\ x.run_history[k].type_ = "Run"
              /\ x.run_history[k].result = "Err(IoError)"

\* C27: the scheduler lock is never held across a job body.  Whoever holds
\* the scheduler mutex can always take its next step, whatever firings are
\* waiting or running: a tick goes through the jobs and unlocks, add and
\* remove act and unlock.  While add or remove holds the mutex the job list
\* is as the holder found it, and while a tick holds it the list has the
\* jobs it was found with, those the tick has not reached yet untouched:
\* add, remove and tick do not interleave.
C27_LockNotHeldAcrossBody ==
  /\ sched.who # "" => ENABLED HolderStep
  /\ sched.who \in {"add", "remove"} => jobs = sched.at
  /\ sched.who = "tick" =>
       /\ Len(jobs) = Len(sched.at)
       /\ \A n \in DOMAIN jobs :
            /\ jobs[n].job_id = sched.at[n].job_id
            /\ n >= sched.k => jobs[n] = sched.at[n]

\* C27 witness: a tick that took the mutex while a job body was running
\* has gone through both jobs, the body still running; the second job was
\* added while that body ran
C27_Witness ==
  /\ sched.who = "tick"
  /\ sched.busy
  /\ sched.k = 3
  /\ Len(jobs) = 2
  /\ jobs[2].job_id = 2
  /\ ctxs[jobs[1].ctx].in_run = <<1>>
  /\ jobs[2].last_run = 1
  /\ ctxs[jobs[2].ctx].pushed = 0

\* the events of what an export returned
ExportedEvents ==
  UNION {{exported[id][k] : k \in DOMAIN exported[id]} : id \in DOMAIN exported}

\* the contexts no Task of the map owns
Removed == {c \in DOMAIN ctxs : \A id \in DOMAIN tasks : tasks[id].context # c}

C36_NoDoubleFire ==
  /\ Cardinality(DOMAIN ticking) <= 1
  /\ \A d \in DOMAIN ticking :
       /\ sched.who = "tick"
       /\ sched.uuid = d
       /\ ticking[d].pc = "for" =>
            ticking[d].last_run = jobs[ticking[d].k].last_run
  /\ \A id \in DOMAIN fires :
       \A i, j \in DOMAIN fires[id].at :
         i # j => fires[id].at[i] # fires[id].at[j]

\* C36 witness: start_tick was called twice, one driver is in the middle of
\* a tick that the other waits to begin, and the job has already fired
C36_Witness ==
  /\ Cardinality(drivers) = 2
  /\ \E d \in DOMAIN ticking : ticking[d].pc = "for" /\ crond # d
  /\ \E id \in DOMAIN fires : Len(fires[id].at) >= 2

\* the firings of a context so far: waiting, running and recorded
Firings(x) == x.spawned + Len(x.in_run) + CountType(x.run_history, "Run")

\* a list of trigger specs with Immediate for every Startup
AsImmediate(trigs) ==
  [k \in DOMAIN trigs |->
     IF trigs[k].kind = "Startup" THEN ImmediateSpec ELSE trigs[k]]

\* the step is the turn of Task::activate or of Task::deactivate (pc) for a
\* Startup trigger
StartupTurn(pc) ==
  /\ mgr.pc = pc
  /\ mgr' # mgr
  /\ mgr.i <= Len(CurTask.triggers)
  /\ CurTask.triggers[mgr.i].kind = "Startup"

\* what a turn of Task::activate does for an Immediate trigger
ImmediateInstalled ==
  /\ ctxs' = ImmediateTrigger_install(ctxs, CurTask.context)
  /\ mgr'.ev = Event("TriggerInstall", now, now, Ok0)
  /\ mgr'.pc = "push_install"
  /\ jobs' = jobs

\* what a turn of Task::deactivate does for an Immediate trigger
ImmediateUninstalled ==
  /\ ctxs' = ctxs
  /\ mgr'.ev = Event("TriggerInstall", now, now, Ok0)
  /\ mgr'.pc = "push_uninstall"
  /\ jobs' = jobs

\* an Activated task whose one trigger is Startup has fired once for every
\* activation: each activation has left one TriggerInstall event, and each
\* deactivation between two of them another
FiredPerActivation ==
  \A id \in DOMAIN tasks :
    LET t == tasks[id]
        x == ctxs[t.context]
    IN  (mgr.pc = "idle" /\ is_activated(t)
           /\ t.spec.triggers = <<StartupSpec>>) =>
          2 * Firings(x) = CountType(x.run_history, "TriggerInstall") + 1

\* C33, as stated: Startup is observationally identical to Immediate.  With
\* Immediate for every Startup trigger the engine would take the same steps:
\* a Startup trigger is installed and uninstalled as an Immediate trigger
\* is, and Task::update finds the triggers changed when and only when it
\* would with Immediate for every Startup.
C33_StartupIdenticalToImmediate ==
  [][/\ StartupTurn("install") => ImmediateInstalled
     /\ StartupTurn("uninstall") => ImmediateUninstalled
     /\ mgr.pc = "update_triggers" =>
          (CurTask.spec.triggers # mgr.spec.triggers)
            = (AsImmediate(CurTask.spec.triggers)
                 # AsImmediate(mgr.spec.triggers))]_vars

\* C33, amended: a Startup trigger is installed and uninstalled as an
\* Immediate trigger is, so that a task whose trigger is Startup runs once
\* on every activation, those caused by update during a reload included;
\* what Task::update does when the old and the new triggers differ in
\* Startup against Immediate only is left out.
C33_StartupAsImmediate ==
  [][/\ StartupTurn("install") => ImmediateInstalled
     /\ StartupTurn("uninstall") => ImmediateUninstalled
     /\ FiredPerActivation']_vars

\* C33 witness: an update during a reload has activated the Startup task
\* again and its second firing has run
C33_Witness ==
  /\ AfterReload
  /\ "A" \in DOMAIN tasks
  /\ tasks["A"].spec = atstart2
  /\ is_activated(tasks["A"])
  /\ CountType(ctxs[tasks["A"].context].run_history, "Run") = 2
  /\ CountType(ctxs[tasks["A"].context].run_history, "TriggerInstall") = 3

\* the pulls the pull loop of this process has begun: the one the loop
\* starts with and one after every tick wait it has completed
PullsBegun == agent.pull_ticks + 1

\* C31: pull cadence.  The pull loop begins its first pull at startup and
\* after that one pull per elapsed pull_interval, no two of them within the
\* same period: by the instant now it has begun no more pulls than periods
\* have begun since the loop created its ticker.
C31_OnePullPerInterval ==
  (agent.main = "started" /\ agent.do_pull) =>
    (PullsBegun - 1) * pull_interval <= now - agent.created

\* the step is a decode call of the receive loop that returns res (the
\* record of the last decode call changes in no other step of the loop)
Decoded(res) ==
  /\ rx.pc = "loop"
  /\ out' # out
  /\ out'.res = res

\* C32: codec error policy on the channel.  On the controller's side and on
\* the agent's, a decode that returns NotEnoughData leaves the buffer as it
\* was and the loop goes on reading; a decode that returns InvalidData ends
\* the loop at once, with no response written for the frame and, for the
\* agent, Err as the result of the pull or report; and a loop that has ended
\* takes no frame any more.
C32_CodecErrorPolicy ==
  [][/\ Decoded("NotEnoughData") =>
          /\ buf' = buf
          /\ rx'.pc = "loop"
          /\ rx'.handled = rx.handled
     /\ Decoded("InvalidData") =>
          /\ rx'.pc = "closed"
          /\ rx'.result = "Err(InvalidData)"
          /\ rx'.handled = rx.handled
     /\ (rx.pc = "closed" /\ rx'.side = rx.side /\ rx'.pc # "loop") =>
          /\ rx' = rx
          /\ buf' = buf
          /\ out' = out]_vars

\* C32 witness: the controller's loop has ended on an invalid frame, and then
\* the agent's pull has read on after NotEnoughData and has failed on the
\* frame once it was whole
C32_Witness ==
  /\ rx.failed = {"controller", "pull"}
  /\ rx.side = "pull"
  /\ rx.partial
  /\ rx.pc = "closed"
  /\ out.res = "InvalidData"
  /\ out.of.kind = "frame"

\* the holder of the manager lock waits for the mutex of context c
ManagerWaitsFor(c) ==
  /\ ~ContextFree(c)
  /\ \/ /\ mgr.pc \in {"push_install", "push_uninstall", "update_swap"}
        /\ CurTask.context = c
     \/ /\ mgr.pc = "export"
        /\ \E id \in mgr.todo : tasks[id].context = c

\* the holder of the manager lock waits for the scheduler mutex
ManagerWaitsForScheduler ==
  /\ UsesCron("install") \/ UsesCron("uninstall")
  /\ sched.who # ""

\* C34: deadlock freedom.  The holder of a context mutex (a firing inside
\* run) and the holder of the scheduler mutex (the tick driver inside tick)
\* wait for no lock: their next step is enabled.  The holder of the manager
\* lock waits at most for one of these two, and when it does not its own
\* next step is enabled.  So no wait is circular.
C34_NoCircularWait ==
  /\ \A c \in DOMAIN ctxs : ctxs[c].in_run # <<>> => ENABLED run_end(c)
  /\ sched.who = "tick" => ENABLED TickStep
  /\ sched.who \in {"", "tick"}
  /\ mgr.pc # "idle" =>
       \/ ENABLED ManagerStep
       \/ ManagerWaitsForScheduler
       \/ \E c \in DOMAIN ctxs : ManagerWaitsFor(c)

\* C34 witness: the three mutexes are held at once, the holder of the manager
\* lock waiting for the scheduler mutex, which the tick driver holds, while a
\* firing of the task runs
C34_Witness ==
  /\ ManagerWaitsForScheduler
  /\ ~ENABLED ManagerStep
  /\ sched.who = "tick"
  /\ ~ContextFree(CurTask.context)

\* C35: reload and export terminate.  Under fair scheduling, with every body
\* run returning, a call of reload or of export_log that holds the manager
\* lock returns: the manager lock is free again.
C35_CallsReturn == (mgr.pc # "idle") ~> (mgr.pc = "idle")

\* C35 witness: reload, in the activate of a task with an Immediate trigger,
\* waits for the context mutex, which the firing that the install has just
\* spawned holds
C35_Witness ==
  /\ mgr.pc = "push_install"
  /\ CurTask.spec = immediate
  /\ ctxs[CurTask.context].in_run # <<>>
  /\ ctxs[CurTask.context].pushed = 0

====
